---------------------------- MODULE Spec2Model ----------------------------
(***************************************************************************)
(* A model of OpenRCT2's park-file engine (src/openrct2/ParkFile.cpp):     *)
(* ParkFile::Load, ParkFile::Import and ParkFile::Save over a chunked      *)
(* container, the object-list codec with identifier remapping and the      *)
(* footpath migration, and the banner, notification and entity codecs.     *)
(***************************************************************************)
EXTENDS Integers, Sequences, FiniteSets, TLC

VARIABLES
    os,                     \* ParkFile::_os: the container opened for reading
    RequiredObjects,        \* ParkFile::RequiredObjects
    pathToSurfaceMap,       \* ParkFile::_pathToSurfaceMap
    pathToQueueSurfaceMap,  \* ParkFile::_pathToQueueSurfaceMap
    pathToRailingsMap,      \* ParkFile::_pathToRailingsMap
    ExportObjectsList,      \* ParkFile::ExportObjectsList
    loadedObjects,          \* the object manager's loaded object list
    objRepository,          \* objects in the object repository
    world,                  \* live simulation state, one value per domain
    gBanners,               \* live banner table
    gNewsItems,             \* live news item store
    entities,               \* live entity table
    rideUse,                \* per-guest ride-use and ride-type-use history
    placeholders,           \* records decoded into a placeholder by the last Import
    saved,                  \* the container produced by the last Save
    dst,                    \* the scenario_index_entry filled by the last GetDetails
    exporter,               \* the ParkFileExporter and the overload of Export that ran
    ui,                     \* gScreenAge, the windows, and the last scenario_save call
    log,                    \* chunk readers/writers invoked, in order
    outOfBounds,            \* a store past the end of a mapping array happened
    pc,                     \* "ready", "loaded", "imported", "failed"
    error                   \* message of the exception that escaped, or NoError

vars == <<os, RequiredObjects, pathToSurfaceMap, pathToQueueSurfaceMap,
          pathToRailingsMap, ExportObjectsList, loadedObjects, objRepository,
          world, gBanners, gNewsItems, entities, rideUse, placeholders, saved, dst,
          exporter, ui, log, outOfBounds, pc, error>>

---------------------------------------------------------------------------
(* Format constants *)

PARK_FILE_CURRENT_VERSION == 6
PARK_FILE_MIN_VERSION == 6

AUTHORING == 1
OBJECTS == 2
SCENARIO == 3
GENERAL == 4
CLIMATE == 5
PARK == 6
RESEARCH == 8
NOTIFICATIONS == 9
INTERFACE == 32
TILES == 48
ENTITIES == 49
RIDES == 50
BANNERS == 51
CHEATS == 54
RESTRICTED_OBJECTS == 55
PACKED_OBJECTS == 128

DESCRIPTOR_NONE == 0
DESCRIPTOR_DAT == 1
DESCRIPTOR_JSON == 2

\* ObjectType enumerators used by the codec, and the number of categories.
ObjectType_Ride == 0
ObjectType_Paths == 5
ObjectType_FootpathSurface == 15
ObjectType_FootpathRailings == 16
ObjectType_Count == 17

OBJECT_ENTRY_INDEX_NULL == 65535

NoError == "none"
NoStream == [header |-> [Magic |-> "", TargetVersion |-> 0, MinVersion |-> 0],
             chunks |-> <<>>]

Max(a, b) == IF a >= b THEN a ELSE b
Min(a, b) == IF a <= b THEN a ELSE b

---------------------------------------------------------------------------
(* The container: a header and a sequence of [type, payload] chunks.       *)

\* OrcaStream::ReadWriteChunk in READING mode: scan the chunks in order for
\* the first one of the requested type.
ChunkIndex(stream, type) ==
    IF \E i \in 1..Len(stream.chunks) : stream.chunks[i].type = type
    THEN CHOOSE i \in 1..Len(stream.chunks) :
            /\ stream.chunks[i].type = type
            /\ \A k \in 1..(i - 1) : stream.chunks[k].type # type
    ELSE 0

HasChunk(stream, type) == ChunkIndex(stream, type) # 0

ChunkPayload(stream, type) == stream.chunks[ChunkIndex(stream, type)].payload

---------------------------------------------------------------------------
(* Object descriptors and the ObjectList *)

NoDescriptor == [Generation |-> "none", Type |-> 0, Entry |-> "", Identifier |-> "",
                 Version |-> ""]

\* ObjectEntryDescriptor(const rct_object_entry&)
DatDescriptor(datEntry) ==
    [Generation |-> "DAT", Type |-> datEntry.type, Entry |-> datEntry.name,
     Identifier |-> "", Version |-> ""]

JsonDescriptor(type, identifier, version) ==
    [Generation |-> "JSON", Type |-> type, Entry |-> "", Identifier |-> identifier,
     Version |-> version]

HasValue(desc) == desc.Generation # "none"

\* ObjectEntryDescriptor::GetName
GetName(desc) == IF desc.Generation = "JSON" THEN desc.Identifier ELSE desc.Entry

ObjectTypes == 0..(ObjectType_Count - 1)

EmptyObjectList == [t \in ObjectTypes |-> <<>>]

\* std::vector resize-and-assign at a 0-based index
VectorSetAt(list, index, value) ==
    [i \in 1..Max(Len(list), index + 1) |->
        IF i = index + 1 THEN value
        ELSE IF i <= Len(list) THEN list[i] ELSE NoDescriptor]

\* ObjectList::SetObject(index, descriptor): the category is the descriptor's
ObjectList_SetObject(list, index, desc) ==
    [list EXCEPT ![desc.Type] = VectorSetAt(@, index, desc)]

\* ObjectList::SetObject(type, index, identifier)
ObjectList_SetObjectId(list, type, index, identifier) ==
    ObjectList_SetObject(list, index, JsonDescriptor(type, identifier, ""))

\* ObjectList::Find(type, identifier): first slot of the category holding it
ObjectList_Find(list, type, identifier) ==
    IF \E i \in 1..Len(list[type]) : list[type][i].Identifier = identifier
    THEN (CHOOSE i \in 1..Len(list[type]) :
            /\ list[type][i].Identifier = identifier
            /\ \A k \in 1..(i - 1) : list[type][k].Identifier # identifier) - 1
    ELSE OBJECT_ENTRY_INDEX_NULL


---------------------------------------------------------------------------
(* Identifier remapping and the footpath migration resolver *)

\* A sample of the static table oldObjectIds (several thousand pairs in the
\* source): entries that rename, and one that maps an identifier to itself.
oldObjectIds ==
    ("official.scgpanda" :> "rct2dlc.scenery_group.scgpanda")
    @@ ("openrct2.station.noentrance" :> "openrct2.station.noentrance")
    @@ ("rct2.railings.wood" :> "rct2.footpath_railings.wood")
    @@ ("rct2.pathsurface.tarmac" :> "rct2.footpath_surface.tarmac")
    @@ ("rct2.pathsurface.queue_blue" :> "rct2.footpath_surface.queue_blue")

\* As if no identifier had been renamed.
MapToNewObjectIdentifier_Unmapped(s) == s

MapToNewObjectIdentifier(s) ==
    IF s \in DOMAIN oldObjectIds THEN oldObjectIds[s] ELSE s

\* A sample of the static table DATPathNames.
DATPathNames ==
    ("rct2.pathash" :> "PATHASH ")
    @@ ("rct2.road" :> "ROAD    ")
    @@ ("rct2.tarmac" :> "TARMAC  ")

NoName == "<nullopt>"

GetDATPathName(newPathName) ==
    IF newPathName \in DOMAIN DATPathNames THEN DATPathNames[newPathName] ELSE NoName

NoMapping == [Original |-> "", NormalSurface |-> "", QueueSurface |-> "", Railing |-> ""]

extendedFootpathMappings ==
    << [Original |-> "rct1.path.tarmac",
        NormalSurface |-> "rct1.footpath_surface.tarmac",
        QueueSurface |-> "rct1.footpath_surface.queue_blue",
        Railing |-> "rct2.footpath_railings.wood"] >>

\* The RCT2 footpath table consulted by GetFootpathSurfaceId, keyed by the
\* 8-character DAT name (a sample of its rows).
footpathMappings ==
    << [Original |-> "PATHASH ",
        NormalSurface |-> "rct2.footpath_surface.ash",
        QueueSurface |-> "rct2.footpath_surface.queue_yellow",
        Railing |-> "rct2.footpath_railings.bamboo_black"],
       [Original |-> "ROAD    ",
        NormalSurface |-> "rct2.footpath_surface.road",
        QueueSurface |-> "rct2.footpath_surface.queue_blue",
        Railing |-> "rct2.footpath_railings.wood"],
       [Original |-> "TARMAC  ",
        NormalSurface |-> "rct2.footpath_surface.tarmac",
        QueueSurface |-> "rct2.footpath_surface.queue_blue",
        Railing |-> "rct2.footpath_railings.wood"] >>

LookupMapping(table, name) ==
    IF \E i \in 1..Len(table) : table[i].Original = name
    THEN table[CHOOSE i \in 1..Len(table) :
                /\ table[i].Original = name
                /\ \A k \in 1..(i - 1) : table[k].Original # name]
    ELSE NoMapping

GetFootpathSurfaceId(desc) == LookupMapping(footpathMappings, GetName(desc))

GetFootpathMapping(desc) ==
    IF LookupMapping(extendedFootpathMappings, GetName(desc)) # NoMapping
    THEN LookupMapping(extendedFootpathMappings, GetName(desc))
    ELSE IF desc.Generation = "JSON"
         THEN IF GetDATPathName(desc.Identifier) # NoName
              THEN GetFootpathSurfaceId(
                       DatDescriptor([name |-> GetDATPathName(desc.Identifier), type |-> 0]))
              ELSE NoMapping
         ELSE GetFootpathSurfaceId(desc)

---------------------------------------------------------------------------
(* Reading the Objects chunk *)

\* Size of the three legacy-mapping arrays.
MAX_PATH_OBJECTS == 2

PathIndices == 0..(MAX_PATH_OBJECTS - 1)

\* A store through one of the three array pointers.  An index outside the
\* array writes outside the object: the array is left alone here and the
\* reader records the out-of-bounds store.
MapStore(map, index, value) ==
    IF index \in DOMAIN map THEN [map EXCEPT ![index] = value] ELSE map

\* One of the three find-or-register steps of UpdateFootpathsFromMapping:
\* the resulting list, the index found or assigned, and the next free count.
FindOrRegister(list, type, count, identifier) ==
    IF ObjectList_Find(list, type, identifier) = OBJECT_ENTRY_INDEX_NULL
    THEN [list |-> ObjectList_SetObjectId(list, type, count, identifier),
          index |-> count, count |-> count + 1]
    ELSE [list |-> list, index |-> ObjectList_Find(list, type, identifier),
          count |-> count]

UpdateFootpathsFromMapping(st, entryIndex, footpathMapping) ==
    LET a == FindOrRegister(st.requiredObjects, ObjectType_FootpathSurface,
                            st.surfaceCount, footpathMapping.NormalSurface)
        b == FindOrRegister(a.list, ObjectType_FootpathSurface,
                            a.count, footpathMapping.QueueSurface)
        c == FindOrRegister(b.list, ObjectType_FootpathRailings,
                            st.railingsCount, footpathMapping.Railing)
    IN  [st EXCEPT !.requiredObjects = c.list,
                   !.surfaceCount = b.count,
                   !.railingsCount = c.count,
                   !.surfaceMap = MapStore(@, entryIndex, a.index),
                   !.queueMap = MapStore(@, entryIndex, b.index),
                   !.railingsMap = MapStore(@, entryIndex, c.index),
                   !.outOfBounds = @ \/ entryIndex >= MAX_PATH_OBJECTS]

\* The body of the inner loop of the reading lambda, for slot j of a sub-list
\* of category objectType holding the descriptor token tok.
ReadObjectEntry(st, version, objectType, j, tok) ==
    IF tok.kind = DESCRIPTOR_NONE THEN st
    ELSE IF tok.kind = DESCRIPTOR_DAT THEN
        LET desc == DatDescriptor([name |-> tok.name, type |-> tok.type])
        IN  IF /\ version <= 2
               /\ tok.type = ObjectType_Paths
               /\ GetFootpathMapping(desc) # NoMapping
            THEN UpdateFootpathsFromMapping(st, j, GetFootpathMapping(desc))
            ELSE [st EXCEPT !.requiredObjects = ObjectList_SetObject(@, j, desc)]
    ELSE IF tok.kind = DESCRIPTOR_JSON THEN
        LET desc == JsonDescriptor(objectType, MapToNewObjectIdentifier(tok.identifier),
                                   tok.version)
        IN  IF version <= 2 /\ GetFootpathMapping(desc) # NoMapping
            THEN UpdateFootpathsFromMapping(st, j, GetFootpathMapping(desc))
            ELSE [st EXCEPT !.requiredObjects = ObjectList_SetObject(@, j, desc)]
    ELSE [st EXCEPT !.error = "Unknown object descriptor kind."]

\* The descriptor tokens of the chunk in stream order, each with the category
\* of its sub-list and its slot index.
RECURSIVE ObjectItems(_)
ObjectItems(subLists) ==
    IF subLists = <<>> THEN <<>>
    ELSE [j \in 1..Len(Head(subLists).slots) |->
             [objectType |-> Head(subLists).objectType, j |-> j - 1,
              tok |-> Head(subLists).slots[j]]]
         \o ObjectItems(Tail(subLists))

RECURSIVE ReadObjectItems(_, _, _, _)
ReadObjectItems(st, version, items, k) ==
    IF k > Len(items) \/ st.error # NoError THEN st
    ELSE ReadObjectItems(
             ReadObjectEntry(st, version, items[k].objectType, items[k].j, items[k].tok),
             version, items, k + 1)

NullMap == [i \in PathIndices |-> OBJECT_ENTRY_INDEX_NULL]

\* As if the reader went on from the arrays the last Load left.
ReadObjectsChunk_Keeping(stream) ==
    LET start == [requiredObjects |-> EmptyObjectList,
                  surfaceMap |-> pathToSurfaceMap, queueMap |-> pathToQueueSurfaceMap,
                  railingsMap |-> pathToRailingsMap,
                  surfaceCount |-> 0, railingsCount |-> 0,
                  outOfBounds |-> FALSE, error |-> NoError]
    IN  IF HasChunk(stream, OBJECTS)
        THEN ReadObjectItems(start, stream.header.TargetVersion,
                             ObjectItems(ChunkPayload(stream, OBJECTS)), 1)
        ELSE start

\* ReadWriteObjectsChunk in READING mode: the arrays are reset, the lambda
\* runs if the chunk is found, and RequiredObjects is replaced only if the
\* lambda returned.
ReadObjectsChunk(stream) ==
    LET start == [requiredObjects |-> EmptyObjectList,
                  surfaceMap |-> NullMap, queueMap |-> NullMap, railingsMap |-> NullMap,
                  surfaceCount |-> 0, railingsCount |-> 0,
                  outOfBounds |-> FALSE, error |-> NoError]
    IN  IF HasChunk(stream, OBJECTS)
        THEN ReadObjectItems(start, stream.header.TargetVersion,
                             ObjectItems(ChunkPayload(stream, OBJECTS)), 1)
        ELSE start


---------------------------------------------------------------------------
(* Reading the PackedObjects chunk *)

\* The object repository is a set of [generation, name, data] records.
\* IObjectRepository::FindObjectLegacy(name) / FindObject(identifier)
FindObject(repository, generation, name) ==
    \E o \in repository : o.generation = generation /\ o.name = name

\* IObjectRepository::AddObjectFromFile(generation, name, data, size)
AddObjectFromFile(repository, generation, name, data) ==
    repository \cup {[generation |-> generation, name |-> name, data |-> data]}

\* As if a packed object replaced the installed object of its name.
ReadPackedObject_Replacing(st, rec) ==
    IF rec.type \in {0, 1}
    THEN [st EXCEPT !.repository =
             AddObjectFromFile(
                 {o \in @ : ~(o.generation = (IF rec.type = 0 THEN "DAT" ELSE "JSON")
                              /\ o.name = rec.name)},
                 IF rec.type = 0 THEN "DAT" ELSE "JSON", rec.name, rec.data)]
    ELSE [st EXCEPT !.error = "Unsupported packed object"]

\* The loop body of the reading branch: a record of tag 0 is added to the
\* repository under its legacy name unless FindObjectLegacy finds it, a
\* record of tag 1 under its identifier unless FindObject finds it.
ReadPackedObject(st, rec) ==
    IF rec.type = 0
    THEN IF FindObject(st.repository, "DAT", rec.name) THEN st
         ELSE [st EXCEPT !.repository = AddObjectFromFile(@, "DAT", rec.name, rec.data)]
    ELSE IF rec.type = 1
    THEN IF FindObject(st.repository, "JSON", rec.name) THEN st
         ELSE [st EXCEPT !.repository = AddObjectFromFile(@, "JSON", rec.name, rec.data)]
    ELSE [st EXCEPT !.error = "Unsupported packed object"]

RECURSIVE ReadPackedObjects(_, _, _)
ReadPackedObjects(st, records, k) ==
    IF k > Len(records) \/ st.error # NoError THEN st
    ELSE ReadPackedObjects(ReadPackedObject(st, records[k]), records, k + 1)

\* The reading branch: numObjects is read, then that many records.
ReadPackedObjectsChunk(stream, repository) ==
    IF HasChunk(stream, PACKED_OBJECTS)
    THEN ReadPackedObjects([repository |-> repository, error |-> NoError],
                           SubSeq(ChunkPayload(stream, PACKED_OBJECTS).records, 1,
                                  ChunkPayload(stream, PACKED_OBJECTS).count), 1)
    ELSE [repository |-> repository, error |-> NoError]

---------------------------------------------------------------------------
(* ParkFile::Load *)

\* One call of a ReadWrite...Chunk function: who called it, the chunk type it
\* searched for, whether the consumer ran, and whether state outside the
\* ParkFile object changed during the call.
LogEntry(by, stream, type, changed) ==
    [by |-> by, chunk |-> type, found |-> HasChunk(stream, type), changed |-> changed]

\* As if Load read the PackedObjects chunk first.
LoadChunks_Swapped == <<PACKED_OBJECTS, OBJECTS>>

\* The chunk types in the order Load reads them.
LoadChunks == <<OBJECTS, PACKED_OBJECTS>>

\* As if the decoded list were moved into RequiredObjects before the throw.
RequiredObjectsAfter_Partial(o) == o.requiredObjects

\* RequiredObjects after ReadWriteObjectsChunk: reset by Load, and replaced by
\* the decoded list only if the consumer returned.
RequiredObjectsAfter(o) ==
    IF o.error # NoError THEN EmptyObjectList ELSE o.requiredObjects

\* Load(stream): a new reading stream, RequiredObjects reset, then the
\* Objects chunk and, unless that threw, the PackedObjects chunk.
Load(stream) ==
    \E o \in {ReadObjectsChunk(stream)} :
    \E p \in {ReadPackedObjectsChunk(stream, objRepository)} :
        /\ os' = stream
        /\ pathToSurfaceMap' = o.surfaceMap
        /\ pathToQueueSurfaceMap' = o.queueMap
        /\ pathToRailingsMap' = o.railingsMap
        /\ outOfBounds' = (outOfBounds \/ o.outOfBounds)
        /\ RequiredObjects' = RequiredObjectsAfter(o)
        /\ IF o.error # NoError
           THEN /\ objRepository' = objRepository
                /\ log' = log \o <<LogEntry("Load", stream, LoadChunks[1], FALSE)>>
                /\ error' = o.error
                /\ pc' = "failed"
           ELSE /\ objRepository' = p.repository
                /\ log' = log \o <<LogEntry("Load", stream, LoadChunks[1], FALSE),
                                   LogEntry("Load", stream, LoadChunks[2],
                                            p.repository # objRepository)>>
                /\ error' = p.error
                /\ pc' = IF p.error # NoError THEN "failed" ELSE "loaded"
        /\ UNCHANGED <<ExportObjectsList, loadedObjects, world, gBanners, gNewsItems,
                       entities, rideUse, placeholders, saved, dst, exporter, ui>>


---------------------------------------------------------------------------
(* Containers holding a hand-built Objects chunk *)

MaxObjects == 3

NoneToken == [kind |-> DESCRIPTOR_NONE, name |-> "", type |-> 0, identifier |-> "",
              version |-> ""]
DatToken(name, type) == [kind |-> DESCRIPTOR_DAT, name |-> name, type |-> type,
                         identifier |-> "", version |-> ""]
JsonToken(identifier) == [kind |-> DESCRIPTOR_JSON, name |-> "", type |-> 0,
                          identifier |-> identifier, version |-> ""]
UnknownToken == [kind |-> 3, name |-> "", type |-> 0, identifier |-> "", version |-> ""]

ObjectTokens ==
    { DatToken("TARMAC  ", ObjectType_Paths),
      DatToken("CUSTPATH", ObjectType_Paths),
      JsonToken("rct2.road"),
      JsonToken("rct1.path.tarmac"),
      JsonToken("rct2.pathsurface.tarmac"),
      UnknownToken }

SubListTypes == {ObjectType_Paths, ObjectType_FootpathSurface}

\* Slot indices used by the containers: one more than the mapping arrays hold.
Positions == SubListTypes \X (0..MAX_PATH_OBJECTS)

\* The sets of positions a container populates.
PositionSets == {Q \in SUBSET Positions : Cardinality(Q) <= MaxObjects}

SetMax(S) == CHOOSE x \in S : \A y \in S : y <= x

SubListOf(placement, type) ==
    LET js == {j \in 0..MAX_PATH_OBJECTS : <<type, j>> \in DOMAIN placement}
    IN  [objectType |-> type,
         slots |-> [i \in 1..(IF js = {} THEN 0 ELSE SetMax(js) + 1) |->
                       IF <<type, i - 1>> \in DOMAIN placement
                       THEN placement[<<type, i - 1>>] ELSE NoneToken]]

ObjectsPayload(placement) ==
    << SubListOf(placement, ObjectType_Paths),
       SubListOf(placement, ObjectType_FootpathSurface) >>

Header(version) == [Magic |-> "PARK", TargetVersion |-> version, MinVersion |-> version]

ObjectsFile(version, placement) ==
    [header |-> Header(version),
     chunks |-> << [type |-> OBJECTS, payload |-> ObjectsPayload(placement)] >>]

ObjectsFileVersions == {2, PARK_FILE_CURRENT_VERSION}


---------------------------------------------------------------------------
(* The Scenario chunk                                                       *)
(* The payload is the sequence of the fields in stream order; a string      *)
(* table is a sequence of <<language code, text>> pairs.                    *)

\* ReadWriteStringTable in WRITING mode: a table of the one language.
WriteStringTable(value, lcode) == << <<lcode, value>> >>

\* ReadWriteStringTable in READING mode: the text of the language asked
\* for, else the first text, else the empty string.
ReadStringTable(table, lcode) ==
    IF \E i \in 1..Len(table) : table[i][1] = lcode
    THEN table[CHOOSE i \in 1..Len(table) :
                  /\ table[i][1] = lcode
                  /\ \A k \in 1..(i - 1) : table[k][1] # lcode][2]
    ELSE IF Len(table) > 0 THEN table[1][2]
    ELSE ""

\* The company values for which no completing player is written or read.
NoCompletedBy == {"MONEY64_UNDEFINED", "COMPANY_VALUE_ON_FAILED_OBJECTIVE"}

\* ReadWriteScenarioChunk in WRITING mode.
WriteScenarioChunk(s, version) ==
    << s.category,
       WriteStringTable(s.name, "en-GB"),
       WriteStringTable(s.parkName, "en-GB"),
       WriteStringTable(s.details, "en-GB"),
       s.objective.Type,
       s.objective.Year,
       s.objective.NumGuests,
       s.objective.Currency,
       s.parkRatingWarningDays,
       s.completedCompanyValue,
       IF s.completedCompanyValue \in NoCompletedBy THEN "" ELSE s.completedBy,
       s.allowEarlyCompletion >>
    \o (IF version >= 1 THEN <<s.fileName>> ELSE <<>>)

\* ReadWriteScenarioChunk in READING mode over the live scenario state s:
\* the early-completion flag is read and, outside network play, dropped.
ReadScenarioFields(s, cs, version) ==
    [category |-> cs[1],
     name |-> ReadStringTable(cs[2], "en-GB"),
     parkName |-> ReadStringTable(cs[3], "en-GB"),
     details |-> ReadStringTable(cs[4], "en-GB"),
     objective |-> [Type |-> cs[5], Year |-> cs[6], NumGuests |-> cs[7],
                    Currency |-> cs[8]],
     parkRatingWarningDays |-> cs[9],
     completedCompanyValue |-> cs[10],
     completedBy |-> IF cs[10] \in NoCompletedBy THEN s.completedBy ELSE cs[11],
     allowEarlyCompletion |-> s.allowEarlyCompletion,
     fileName |-> IF version >= 1 THEN cs[13] ELSE s.fileName]

\* sizeof(entry.name) and sizeof(entry.details) of a scenario_index_entry.
EntryNameSize == 64
EntryDetailsSize == 256

\* String::Set(buffer, bufferSize, src): a copy cut to what fits in front of
\* the terminator.
String_Set(bufferSize, src) ==
    IF Len(src) < bufferSize THEN src ELSE SubSeq(src, 1, bufferSize - 1)

\* scenario_index_entry entry{}
NoEntry ==
    [category |-> 0, name |-> "", internal_name |-> "", details |-> "",
     objective_type |-> 0, objective_arg_1 |-> 0, objective_arg_2 |-> 0,
     objective_arg_3 |-> 0, source_game |-> "RCT1"]

\* As if the guest count were read in front of the year.
ReadScenarioChunk_GuestsFirst(stream) ==
    IF HasChunk(stream, SCENARIO)
    THEN LET cs == ChunkPayload(stream, SCENARIO)
         IN  [category |-> cs[1],
              name |-> String_Set(EntryNameSize, ReadStringTable(cs[2], "en-GB")),
              internal_name |-> String_Set(EntryNameSize, ReadStringTable(cs[2], "en-GB")),
              details |-> String_Set(EntryDetailsSize, ReadStringTable(cs[4], "en-GB")),
              objective_type |-> cs[5],
              objective_arg_3 |-> cs[6],
              objective_arg_1 |-> cs[7],
              objective_arg_2 |-> cs[8],
              source_game |-> "Other"]
    ELSE NoEntry

\* ReadScenarioChunk(): the summary of the Scenario chunk of the open
\* container; the park name is read and dropped.
ReadScenarioChunk(stream) ==
    IF HasChunk(stream, SCENARIO)
    THEN LET cs == ChunkPayload(stream, SCENARIO)
         IN  [category |-> cs[1],
              name |-> String_Set(EntryNameSize, ReadStringTable(cs[2], "en-GB")),
              internal_name |-> String_Set(EntryNameSize, ReadStringTable(cs[2], "en-GB")),
              details |-> String_Set(EntryDetailsSize, ReadStringTable(cs[4], "en-GB")),
              objective_type |-> cs[5],
              objective_arg_1 |-> cs[6],
              objective_arg_3 |-> cs[7],
              objective_arg_2 |-> cs[8],
              source_game |-> "Other"]
    ELSE NoEntry

\* ParkFileImporter::GetDetails(dst)
GetDetails ==
    /\ pc = "loaded"
    /\ dst' = ReadScenarioChunk(os)
    /\ UNCHANGED <<os, RequiredObjects, pathToSurfaceMap, pathToQueueSurfaceMap,
                   pathToRailingsMap, ExportObjectsList, loadedObjects, objRepository,
                   world, gBanners, gNewsItems, entities, rideUse, placeholders,
                   saved, exporter, ui, log, outOfBounds, pc, error>>

\* The scenario of a park that is already running, and the one in the files.
OldScenario ==
    [category |-> 0, name |-> "old scenario", parkName |-> "old park",
     details |-> "old details",
     objective |-> [Type |-> 0, Year |-> 0, NumGuests |-> 0, Currency |-> 0],
     parkRatingWarningDays |-> 0, completedCompanyValue |-> "MONEY64_UNDEFINED",
     completedBy |-> "old player", allowEarlyCompletion |-> FALSE,
     fileName |-> "old.sc6"]

FileScenario ==
    [category |-> 3, name |-> "file scenario", parkName |-> "file park",
     details |-> "file details",
     objective |-> [Type |-> 1, Year |-> 3, NumGuests |-> 1000, Currency |-> 0],
     parkRatingWarningDays |-> 0, completedCompanyValue |-> "20000",
     completedBy |-> "file player", allowEarlyCompletion |-> FALSE,
     fileName |-> "file.park"]

---------------------------------------------------------------------------
(* The Park chunk                                                           *)
(* The payload is the sequence of the fields in stream order, each a cell   *)
(* [kind, v]; a vector or an array is one cell holding its elements.  cash  *)
(* stands for the eleven fields in front of the finances, statistics for    *)
(* the scalars and histories behind the awards.                             *)

\* Dimensions of gExpenditureTable and size of gCurrentAwards.
EXPENDITURE_TABLE_MONTH_COUNT == 2
ExpenditureType_Count == 2
MAX_AWARDS == 2

Field(kind, v) == [kind |-> kind, v |-> v]

\* The values of a table in row-major order, as the two nested loops emit
\* them; rows and columns are counted from 1.
TableCells(table, numMonths, numTypes) ==
    [n \in 1..(numMonths * numTypes) |->
        Field("money64", table[((n - 1) \div numTypes) + 1][((n - 1) % numTypes) + 1])]

NoAward == [Time |-> 0, Type |-> 0]

\* ReadWriteArray in WRITING mode with the award callback: the elements for
\* which the callback returns true, that is the awards with a nonzero Time.
WriteAwards(awards) == SelectSeq(awards, LAMBDA award : award.Time # 0)

\* ReadWriteArray in READING mode with the award callback: the callback is
\* handed the live element for each stored element that has a slot, and reads
\* the stored Time and Type only if the Time of the element it is handed is
\* nonzero.
ReadAwards(awards, stored) ==
    [k \in 1..Len(awards) |->
        IF k <= Len(stored) /\ awards[k].Time # 0 THEN stored[k] ELSE awards[k]]

\* ReadWriteParkChunk in WRITING mode.
WriteParkChunk(park) ==
    << Field("money64", park.cash),
       Field("uint32", EXPENDITURE_TABLE_MONTH_COUNT),
       Field("uint32", ExpenditureType_Count) >>
    \o TableCells(park.expenditureTable, EXPENDITURE_TABLE_MONTH_COUNT, ExpenditureType_Count)
    \o << Field("money64", park.historicalProfit),
          Field("vector", park.marketingCampaigns),
          Field("array", WriteAwards(park.awards)),
          Field("fields", park.statistics) >>

\* The fields behind the historical profit, read from position q on.  Where
\* the cell at q is not the start of the campaign vector the reader decodes
\* whatever bytes are there: the fields are flagged as garbled.
ReadParkTail(park, cs, q) ==
    IF q + 2 <= Len(cs) /\ cs[q].kind = "vector"
    THEN [park EXCEPT !.marketingCampaigns = cs[q].v,
                      !.awards = ReadAwards(@, cs[q + 1].v),
                      !.statistics = cs[q + 2].v]
    ELSE [park EXCEPT !.garbled = TRUE]

\* ReadWriteParkChunk in READING mode over the live park state: the table
\* counts are capped, numMonths * numTypes values are read one after the
\* other, and the historical profit is read from the next position.
ReadParkChunk(park, cs) ==
    LET numMonths == Min(EXPENDITURE_TABLE_MONTH_COUNT, cs[2].v)
        numTypes == Min(ExpenditureType_Count, cs[3].v)
        q == 3 + numMonths * numTypes + 1
    IN  ReadParkTail(
            [park EXCEPT
                !.cash = cs[1].v,
                !.expenditureTable =
                    [i \in 1..EXPENDITURE_TABLE_MONTH_COUNT |->
                        [j \in 1..ExpenditureType_Count |->
                            IF i <= numMonths /\ j <= numTypes
                            THEN cs[3 + (i - 1) * numTypes + j].v
                            ELSE park.expenditureTable[i][j]]],
                !.historicalProfit = cs[q].v],
            cs, q + 1)

OldPark ==
    [cash |-> 1,
     expenditureTable |-> [i \in 1..EXPENDITURE_TABLE_MONTH_COUNT |->
                              [j \in 1..ExpenditureType_Count |-> 0]],
     historicalProfit |-> 0,
     marketingCampaigns |-> <<>>,
     awards |-> [k \in 1..MAX_AWARDS |-> NoAward],
     statistics |-> "old statistics",
     garbled |-> FALSE]

FilePark ==
    [cash |-> 2,
     expenditureTable |-> [i \in 1..EXPENDITURE_TABLE_MONTH_COUNT |->
                              [j \in 1..ExpenditureType_Count |-> 10 * i + j]],
     historicalProfit |-> 5,
     marketingCampaigns |-> <<>>,
     awards |-> [k \in 1..MAX_AWARDS |-> NoAward],
     statistics |-> "file statistics",
     garbled |-> FALSE]

---------------------------------------------------------------------------
(* The Research chunk                                                       *)
(* An optional research item is the empty sequence or a sequence of one     *)
(* item; in the payload it is a cell with the presence boolean and, if the  *)
(* boolean is true, the item.  status stands for the six scalars in front.  *)

\* ReadWriteResearchItem(cs, std::optional<ResearchItem>&) in WRITING mode.
WriteResearchItem(item) ==
    IF item # <<>> THEN [hasValue |-> TRUE, item |-> item[1]]
    ELSE [hasValue |-> FALSE]

\* ReadWriteResearchItem(cs, std::optional<ResearchItem>&) in READING mode:
\* the item is assigned only if the boolean read is true.
ReadResearchItem(item, cell) ==
    IF cell.hasValue THEN <<cell.item>> ELSE item

\* ReadWriteResearchChunk in WRITING mode.
WriteResearchChunk(research) ==
    << research.status,
       WriteResearchItem(research.lastItem),
       WriteResearchItem(research.nextItem),
       research.uninvented,
       research.invented >>

\* ReadWriteResearchChunk in READING mode over the live research state.
ReadResearchChunk(research, cs) ==
    [status |-> cs[1],
     lastItem |-> ReadResearchItem(research.lastItem, cs[2]),
     nextItem |-> ReadResearchItem(research.nextItem, cs[3]),
     uninvented |-> cs[4],
     invented |-> cs[5]]

ResearchItem(entryIndex) ==
    [type |-> 0, baseRideType |-> 0, entryIndex |-> entryIndex, flags |-> 0,
     category |-> 0]

OldResearch ==
    [status |-> "old research", lastItem |-> <<>>, nextItem |-> <<>>,
     uninvented |-> <<>>, invented |-> <<>>]

FileResearch ==
    [status |-> "file research", lastItem |-> <<ResearchItem(1)>>, nextItem |-> <<>>,
     uninvented |-> <<ResearchItem(2)>>, invented |-> <<ResearchItem(1)>>]

---------------------------------------------------------------------------
(* Import: the chunk readers over the live state                            *)
(* A live state L is a record of the simulation domains the readers write:  *)
(* world (one field per chunk read as a whole), gBanners, gNewsItems,       *)
(* entities, rideUse, placeholders, and error (message of the exception     *)
(* thrown, if any).                                                         *)

\* A chunk whose fields are all installed into their globals by the consumer.
ReadFields(L, stream, type, domain) ==
    IF HasChunk(stream, type)
    THEN [L EXCEPT !.world[domain] = ChunkPayload(stream, type)]
    ELSE L

\* As if queues took the normal surface of their legacy entry.
PatchPathElement_QueueAsPath(el) ==
    IF /\ el.isPath
       /\ el.hasLegacyPathEntry
       /\ pathToRailingsMap[el.legacyPathEntryIndex] # OBJECT_ENTRY_INDEX_NULL
    THEN [el EXCEPT !.surfaceEntryIndex = pathToSurfaceMap[el.legacyPathEntryIndex],
                    !.railingsEntryIndex = pathToRailingsMap[el.legacyPathEntryIndex]]
    ELSE el

\* The full-grid pass of the Tiles consumer over one tile element.
PatchPathElement(el) ==
    IF /\ el.isPath
       /\ el.hasLegacyPathEntry
       /\ pathToRailingsMap[el.legacyPathEntryIndex] # OBJECT_ENTRY_INDEX_NULL
    THEN [el EXCEPT !.surfaceEntryIndex =
                        IF el.isQueue
                        THEN pathToQueueSurfaceMap[el.legacyPathEntryIndex]
                        ELSE pathToSurfaceMap[el.legacyPathEntryIndex],
                    !.railingsEntryIndex = pathToRailingsMap[el.legacyPathEntryIndex]]
    ELSE el

ReadWriteTilesChunk(L, stream) ==
    IF HasChunk(stream, TILES)
    THEN [L EXCEPT !.world.tiles =
             [mapSize |-> ChunkPayload(stream, TILES).mapSize,
              elements |-> [i \in 1..Len(ChunkPayload(stream, TILES).elements) |->
                               PatchPathElement(ChunkPayload(stream, TILES).elements[i])]]]
    ELSE [L EXCEPT !.error = "No tiles chunk found."]

\* The ride record.  Of its fields the model keeps the id, the type, the
\* fields on both sides of the two version gates and the gated fields; a
\* record of the chunk is the sequence of its values in stream order.

GetMinCarsPerTrain(value) == value \div 16

\* As if the whole byte were taken as the maximum.
GetMaxCarsPerTrain_Whole(value) == value

GetMaxCarsPerTrain(value) == value % 16

\* The ride GetOrAllocateRide hands out after ride_init_all.
NewRide(rideId) ==
    [id |-> rideId, type |-> 0, max_trains |-> 0, MinCarsPerTrain |-> 0,
     MaxCarsPerTrain |-> 0, min_waiting_time |-> 0, num_sheltered_sections |-> 0,
     sheltered_eighths |-> 0, holes |-> 0, current_test_station |-> 0]

\* The lambda of ReadWriteVector in READING mode over one record.
ReadRide(cs, version) ==
    LET q == IF version < 5 THEN 5 ELSE 6
        r == IF version > 5 THEN q + 4 ELSE q + 2
    IN  [NewRide(cs[1]) EXCEPT
            !.type = cs[2],
            !.max_trains = cs[3],
            !.MinCarsPerTrain = IF version < 5 THEN GetMinCarsPerTrain(cs[4]) ELSE cs[4],
            !.MaxCarsPerTrain = IF version < 5 THEN GetMaxCarsPerTrain(cs[4]) ELSE cs[5],
            !.min_waiting_time = cs[q],
            !.num_sheltered_sections = cs[q + 1],
            !.sheltered_eighths = IF version > 5 THEN cs[q + 2] ELSE @,
            !.holes = IF version > 5 THEN cs[q + 3] ELSE @,
            !.current_test_station = cs[r]]

ReadRides(records, version) ==
    [i \in 1..Len(records) |-> ReadRide(records[i], version)]

\* The lambda of ReadWriteVector in WRITING mode.  Save writes containers
\* of PARK_FILE_CURRENT_VERSION only, so the packed byte of the versions
\* before 5 is never written.
WriteRide(ride, version) ==
    << ride.id, ride.type, ride.max_trains, ride.MinCarsPerTrain, ride.MaxCarsPerTrain,
       ride.min_waiting_time, ride.num_sheltered_sections >>
    \o (IF version > 5 THEN <<ride.sheltered_eighths, ride.holes>> ELSE <<>>)
    \o << ride.current_test_station >>

WriteRidesChunk(rides, version) ==
    [i \in 1..Len(rides) |-> WriteRide(rides[i], version)]

\* As if the ride table were reinitialised before the chunk is searched for.
ReadWriteRidesChunk_ResetFirst(L, stream) ==
    IF HasChunk(stream, RIDES)
    THEN [L EXCEPT !.world.rides =
             ReadRides(ChunkPayload(stream, RIDES), stream.header.TargetVersion)]
    ELSE [L EXCEPT !.world.rides = <<>>]

\* The consumer reinitialises the ride table and reads the rides.
ReadWriteRidesChunk(L, stream) ==
    IF HasChunk(stream, RIDES)
    THEN [L EXCEPT !.world.rides =
             ReadRides(ChunkPayload(stream, RIDES), stream.header.TargetVersion)]
    ELSE L

ReadWriteScenarioChunk(L, stream) ==
    IF HasChunk(stream, SCENARIO)
    THEN [L EXCEPT !.world.scenario =
             ReadScenarioFields(@, ChunkPayload(stream, SCENARIO),
                                stream.header.TargetVersion)]
    ELSE L

\* As if a container without a General chunk were accepted.
ReadWriteGeneralChunk_Optional(L, stream) == ReadFields(L, stream, GENERAL, "general")

ReadWriteGeneralChunk(L, stream) ==
    IF HasChunk(stream, GENERAL)
    THEN ReadFields(L, stream, GENERAL, "general")
    ELSE [L EXCEPT !.error = "No general chunk found."]

ReadWriteParkChunk(L, stream) ==
    IF HasChunk(stream, PARK)
    THEN [L EXCEPT !.world.park = ReadParkChunk(@, ChunkPayload(stream, PARK))]
    ELSE L

ReadWriteClimateChunk(L, stream) == ReadFields(L, stream, CLIMATE, "climate")

ReadWriteResearchChunk(L, stream) ==
    IF HasChunk(stream, RESEARCH)
    THEN [L EXCEPT !.world.research =
             ReadResearchChunk(@, ChunkPayload(stream, RESEARCH))]
    ELSE L

ReadWriteInterfaceChunk(L, stream) == ReadFields(L, stream, INTERFACE, "interface")

ReadWriteCheatsChunk(L, stream) == ReadFields(L, stream, CHEATS, "cheats")

ReadWriteRestrictedObjectsChunk(L, stream) ==
    ReadFields(L, stream, RESTRICTED_OBJECTS, "restricted")

---------------------------------------------------------------------------
(* Banners *)

MAX_BANNERS == 2

BANNER_INDEX_NULL == 65535

NoBanner == [id |-> BANNER_INDEX_NULL, text |-> ""]

BannerIndices == 0..(MAX_BANNERS - 1)

\* GetOrCreateBanner(id) returns a slot exactly for the ids of the table.
CanCreateBanner(id) == id \in BannerIndices

\* ReadWriteBanner: the id is part of the record from version 1 on; a record
\* read without it keeps the id of a default-constructed Banner.
ReadWriteBanner(version, rec) ==
    IF version >= 1 THEN [id |-> rec.id, text |-> rec.text]
    ELSE [id |-> BANNER_INDEX_NULL, text |-> rec.text]

\* Version 0: the whole vector is read, then record i goes to slot i if that
\* slot can be created and is dropped otherwise.
RECURSIVE ReadBannersUnindexed(_, _, _)
ReadBannersUnindexed(L, records, i) ==
    IF i >= Len(records) THEN L
    ELSE ReadBannersUnindexed(
             IF CanCreateBanner(i)
             THEN [L EXCEPT !.gBanners[i] =
                      [ReadWriteBanner(0, records[i + 1]) EXCEPT !.id = i]]
             ELSE L,
             records, i + 1)

\* As if a record whose id has no slot were dropped, as at version 0.
RECURSIVE ReadBannersIndexed_Dropping(_, _, _, _)
ReadBannersIndexed_Dropping(L, version, records, i) ==
    IF i >= Len(records) THEN L
    ELSE ReadBannersIndexed_Dropping(
             IF CanCreateBanner(records[i + 1].id)
             THEN [L EXCEPT !.gBanners[records[i + 1].id] = records[i + 1]]
             ELSE L,
             version, records, i + 1)

\* Version 1 and later: each record is installed in the slot named by its id
\* as soon as it is read; the first id without a slot throws.
RECURSIVE ReadBannersIndexed(_, _, _, _)
ReadBannersIndexed(L, version, records, i) ==
    IF i >= Len(records) \/ L.error # NoError THEN L
    ELSE ReadBannersIndexed(
             IF CanCreateBanner(ReadWriteBanner(version, records[i + 1]).id)
             THEN [L EXCEPT !.gBanners[ReadWriteBanner(version, records[i + 1]).id] =
                      ReadWriteBanner(version, records[i + 1])]
             ELSE [L EXCEPT !.error = "Invalid banner index"],
             version, records, i + 1)

ReadWriteBannersChunk(L, stream) ==
    IF HasChunk(stream, BANNERS)
    THEN IF stream.header.TargetVersion = 0
         THEN ReadBannersUnindexed(L, ChunkPayload(stream, BANNERS), 0)
         ELSE ReadBannersIndexed(L, stream.header.TargetVersion,
                                 ChunkPayload(stream, BANNERS), 0)
    ELSE L

---------------------------------------------------------------------------
(* Notifications *)

ItemHistoryStart == 2
MaxItemsArchive == 2

NewsIndices == 0..(ItemHistoryStart + MaxItemsArchive - 1)

NullNewsItem == [Type |-> 0, Text |-> ""]

\* News::ItemQueues::Clear
ClearedNewsItems == [i \in NewsIndices |-> NullNewsItem]

\* gNewsItems[index] = item; an index past the store is a write outside it,
\* kept visible as an extra index of the function.
NewsStore(items, index, item) ==
    [k \in (DOMAIN items) \cup {index} |-> IF k = index THEN item ELSE items[k]]

\* As if every item read were installed.
CopyLimit_Uncapped(size, capacity) == size

\* Number of items one copy loop installs from a list of the given size.
CopyLimit(size, capacity) == Min(size, capacity)

RECURSIVE CopyNewsItems(_, _, _, _, _)
CopyNewsItems(items, list, offset, capacity, i) ==
    IF i >= CopyLimit(Len(list), capacity) THEN items
    ELSE CopyNewsItems(NewsStore(items, offset + i, list[i + 1]),
                       list, offset, capacity, i + 1)

ReadWriteNotificationsChunk(L, stream) ==
    IF HasChunk(stream, NOTIFICATIONS)
    THEN [L EXCEPT !.gNewsItems =
             CopyNewsItems(
                 CopyNewsItems(ClearedNewsItems,
                               ChunkPayload(stream, NOTIFICATIONS).recent,
                               0, ItemHistoryStart, 0),
                 ChunkPayload(stream, NOTIFICATIONS).archived,
                 ItemHistoryStart, MaxItemsArchive, 0)]
    ELSE L


---------------------------------------------------------------------------
(* Entities: record layouts *)
(* A record is a run of cells, one per group of consecutive fields that the *)
(* code reads under the same conditions; a layout is the sequence of group  *)
(* names, each named after the first field of the group.                    *)

\* As if version 2 still interleaved the kind-specific blocks.
PeepInterleaved_UpToTwo(version) == version <= 2

\* The gate on every kind-specific block inside ReadWritePeep.
PeepInterleaved(version) == version <= 1

\* The kind-specific block number n of ReadWritePeep, for a Guest ...
PeepGuestBlock(n) ==
    CASE n = 1 -> <<"Guest.OutsideOfPark">>
      [] n = 2 -> <<"Guest.GuestNumRides">>
      [] n = 3 -> <<"Guest.Happiness">>
      [] n = 4 -> <<"Guest.TimeToConsume">>
      [] n = 5 -> <<"Guest.PaidOnDrink", "Guest.rideTypeBeenOn", "Guest.ItemFlags">>
      [] n = 6 -> <<"Guest.GuestNextInQueue">>
      [] n = 7 -> <<"Guest.TimeInQueue", "Guest.ridesBeenOn">>
      [] n = 8 -> <<"Guest.CashInPocket", "Guest.Thoughts">>
      [] n = 9 -> <<"Guest.GuestHeadingToRideId">>
      [] OTHER -> <<"Guest.LitterCount">>

\* ... and for any other Peep: staff fields, and Ignore for the guest's.
PeepStaffBlock(n) ==
    CASE n = 1 -> <<"Ignore.bool">>
      [] n = 2 -> <<"Staff.AssignedStaffType">>
      [] n = 3 -> <<"Ignore.Happiness">>
      [] n = 4 -> <<"Ignore.TimeToConsume">>
      [] n = 5 -> <<"Ignore.money16", "Ignore.rideTypeVector", "Ignore.ItemFlags">>
      [] n = 6 -> <<"Staff.MechanicTimeSinceCall">>
      [] n = 7 -> <<"Ignore.TimeInQueue", "Ignore.ridesVector">>
      [] n = 8 -> <<"Staff.HireDate", "Ignore.thoughtsVector">>
      [] n = 9 -> <<"Staff.StaffOrders">>
      [] OTHER -> <<"Staff.StaffMowingTimeout">>

PeepBlock(version, isGuest, n) ==
    IF PeepInterleaved(version)
    THEN IF isGuest THEN PeepGuestBlock(n) ELSE PeepStaffBlock(n)
    ELSE <<>>

\* The groups of fields every Peep record has, in the order read.
PeepShared ==
    << "Peep.Name", "Peep.State", "Peep.TshirtColour", "Peep.Mass",
       "Peep.WindowInvalidateFlags", "Peep.CurrentRide", "Peep.PeepDirection", "Peep.Id",
       "Peep.PathCheckOptimisation", "Peep.PeepFlags" >>

RECURSIVE PeepFrom(_, _, _)
PeepFrom(version, isGuest, n) ==
    IF n > Len(PeepShared) THEN <<>>
    ELSE <<PeepShared[n]>>
         \o PeepBlock(version, isGuest, n)
         \o PeepFrom(version, isGuest, n + 1)

\* ReadWritePeep: the common header, then shared groups with the
\* kind-specific blocks between them.
ReadWritePeep(version, isGuest) == <<"Common">> \o PeepFrom(version, isGuest, 1)

\* ReadWriteEntity for a Guest
ReadWriteGuest(version) ==
    ReadWritePeep(version, TRUE)
    \o (IF version <= 1 THEN <<>>
        ELSE <<"GuestTail.GuestNumRides">>
             \o (IF version < 3 THEN <<"GuestTail.rideTypeBeenOn">> ELSE <<>>)
             \o <<"GuestTail.TimeInQueue">>
             \o (IF version < 3 THEN <<"GuestTail.ridesBeenOn">>
                 ELSE <<"GuestTail.rideUse", "GuestTail.rideTypeUse">>)
             \o <<"GuestTail.CashInPocket", "GuestTail.Thoughts", "GuestTail.LitterCount">>)

\* ReadWriteEntity for a Staff
ReadWriteStaff(version) ==
    ReadWritePeep(version, FALSE)
    \o <<"Staff.patrolArea">>
    \o (IF version <= 1 THEN <<>>
        ELSE <<"StaffTail.AssignedStaffType">>
             \o (IF version <= 2 THEN <<"Ignore.u8">> ELSE <<>>)
             \o <<"StaffTail.StaffOrders">>)

\* The entity kinds of the chunk, in the order their lists are read and written.
EntityKinds ==
    << "Vehicle", "Guest", "Staff", "Litter", "SteamParticle", "MoneyEffect",
       "VehicleCrashParticle", "ExplosionCloud", "CrashSplashParticle", "ExplosionFlare",
       "JumpingFountain", "Balloon", "Duck" >>

\* ReadWriteEntity<T>: the layout of one record of the kind at the version.
ReadWriteEntity(kind, version) ==
    CASE kind = "Guest" -> ReadWriteGuest(version)
      [] kind = "Staff" -> ReadWriteStaff(version)
      [] OTHER -> <<"Common", "Fields">>


---------------------------------------------------------------------------
(* Entities: decoding *)

MAX_ENTITIES == 2

RCT12_MAX_RIDE_OBJECTS == 128
RCT12_MAX_RIDES_IN_PARK == 255

EntityIndices == 0..(MAX_ENTITIES - 1)

NoEntity == [kind |-> "Null", sprite_index |-> 0, fieldsRead |-> <<>>, garbled |-> FALSE]

\* reset_sprite_list
EmptyEntities == [i \in EntityIndices |-> NoEntity]

\* CreateEntityAt<T>(index) returns an entity exactly for a free slot of the table.
CanCreateEntityAt(table, index) == index \in DOMAIN table /\ table[index] = NoEntity

\* The cell at a stream position; reading past the end yields an empty cell.
Cell(cells, pos) ==
    IF pos \in 1..Len(cells) THEN cells[pos] ELSE [seg |-> "eof", value |-> <<>>]

CellNumber(c) == IF Len(c.value) > 0 THEN c.value[1] ELSE 0

RECURSIVE Ascending(_)
Ascending(S) ==
    IF S = {} THEN <<>>
    ELSE LET m == CHOOSE x \in S : \A y \in S : x <= y
         IN  <<m>> \o Ascending(S \ {m})

\* The ids whose bit is set in a legacy bitmap (one 0/1 entry per bit).
LegacyBits(srcArray, limit) ==
    Ascending({i \in 0..(Len(srcArray) - 1) : i < limit /\ srcArray[i + 1] = 1})

LegacyGetRideTypesBeenOn(srcArray) == LegacyBits(srcArray, RCT12_MAX_RIDE_OBJECTS)

LegacyGetRidesBeenOn(srcArray) == LegacyBits(srcArray, RCT12_MAX_RIDES_IN_PARK)

\* RideUse history Set(index, list)
HistorySet(store, index, list) ==
    [k \in (DOMAIN store) \cup {index} |-> IF k = index THEN list ELSE store[k]]

\* The effect on the history store of reading one group of a Guest record
\* into an entity whose sprite_index has been read from the common header.
ReadHistoryField(use, name, value, sprite_index) ==
    IF name \in {"Guest.rideTypeBeenOn", "GuestTail.rideTypeBeenOn"}
    THEN [use EXCEPT !.typeHistory =
              HistorySet(@, sprite_index, LegacyGetRideTypesBeenOn(value))]
    ELSE IF name \in {"Guest.ridesBeenOn", "GuestTail.ridesBeenOn"}
    THEN [use EXCEPT !.history = HistorySet(@, sprite_index, LegacyGetRidesBeenOn(value))]
    ELSE IF name = "GuestTail.rideUse"
    THEN [use EXCEPT !.history = HistorySet(@, sprite_index, value)]
    ELSE IF name = "GuestTail.rideTypeUse"
    THEN [use EXCEPT !.typeHistory = HistorySet(@, sprite_index, value)]
    ELSE use

\* The groups of a Guest record that hold ride history: bitmaps, id lists.
LegacyHistoryGroups ==
    {"Guest.rideTypeBeenOn", "GuestTail.rideTypeBeenOn", "Guest.ridesBeenOn",
     "GuestTail.ridesBeenOn"}

HistoryListGroups == {"GuestTail.rideUse", "GuestTail.rideTypeUse"}

\* The effect on the history store of reading a whole Guest record whose
\* common header is at position pos: that of its history groups, in order.
RECURSIVE ReadHistoryFields(_, _, _, _, _, _)
ReadHistoryFields(use, layout, cells, pos, sprite_index, at) ==
    IF at = <<>> THEN use
    ELSE ReadHistoryFields(
             ReadHistoryField(use, layout[Head(at)], Cell(cells, pos + Head(at) - 1).value,
                              sprite_index),
             layout, cells, pos, sprite_index, Tail(at))

HistoryPositions(layout) ==
    Ascending({i \in 1..Len(layout) : layout[i] \in LegacyHistoryGroups \cup HistoryListGroups})

\* One iteration of the loop of ReadEntitiesOfType<T>, the slot index being
\* at position pos: the record is decoded by ReadWriteEntity<T> into the
\* entity created at that slot, or into the placeholder if none was created.
ReadEntityRecord(acc, version, kind, cells) ==
    LET index == CellNumber(Cell(cells, acc.pos))
        layout == ReadWriteEntity(kind, version)
        created == CanCreateEntityAt(acc.L.entities, index)
        ent == [kind |-> kind,
                sprite_index |-> CellNumber(Cell(cells, acc.pos + 1)),
                fieldsRead |-> layout,
                garbled |-> \E i \in 1..Len(layout) :
                                Cell(cells, acc.pos + i).seg # layout[i]]
        use == IF kind = "Guest"
               THEN ReadHistoryFields(acc.L.rideUse, layout, cells, acc.pos + 1,
                                      ent.sprite_index, HistoryPositions(layout))
               ELSE acc.L.rideUse
    IN  [pos |-> acc.pos + 1 + Len(layout),
         L |-> [acc.L EXCEPT
                  !.entities = IF created THEN [@ EXCEPT ![index] = ent] ELSE @,
                  !.rideUse = use,
                  !.placeholders =
                      IF created THEN @
                      ELSE Append(@, [kind |-> kind, index |-> index,
                                      sprite_index |-> ent.sprite_index,
                                      modified |-> use # acc.L.rideUse])]]

RECURSIVE ReadEntityRecords(_, _, _, _, _)
ReadEntityRecords(acc, version, kind, cells, remaining) ==
    IF remaining = 0 THEN acc
    ELSE ReadEntityRecords(ReadEntityRecord(acc, version, kind, cells),
                           version, kind, cells, remaining - 1)

\* ReadEntitiesOfType<T>: the type tag, the count, then that many records.
ReadEntitiesOfType(acc, version, kind, cells) ==
    ReadEntityRecords([acc EXCEPT !.pos = @ + 2], version, kind, cells,
                      CellNumber(Cell(cells, acc.pos + 1)))

\* ReadEntitiesOfTypes<T...>: one list per kind, in order, as far as the
\* chunk goes.
RECURSIVE ReadEntitiesOfTypes(_, _, _, _)
ReadEntitiesOfTypes(acc, version, cells, k) ==
    IF k > Len(EntityKinds) \/ acc.pos > Len(cells) THEN acc
    ELSE ReadEntitiesOfTypes(ReadEntitiesOfType(acc, version, EntityKinds[k], cells),
                             version, cells, k + 1)

ReadWriteEntitiesChunk(L, stream) ==
    IF HasChunk(stream, ENTITIES)
    THEN ReadEntitiesOfTypes([pos |-> 1, L |-> [L EXCEPT !.entities = EmptyEntities]],
                             stream.header.TargetVersion,
                             ChunkPayload(stream, ENTITIES), 1).L
    ELSE L


---------------------------------------------------------------------------
(* ParkFile::Import *)

\* As if the Scenario chunk were read in front of the Entities chunk.
ImportChunks_ScenarioEarly ==
    << TILES, BANNERS, RIDES, SCENARIO, ENTITIES, GENERAL, PARK, CLIMATE, RESEARCH,
       NOTIFICATIONS, INTERFACE, CHEATS, RESTRICTED_OBJECTS >>

\* The chunk types in the order Import reads them.
ImportChunks ==
    << TILES, BANNERS, RIDES, ENTITIES, SCENARIO, GENERAL, PARK, CLIMATE, RESEARCH,
       NOTIFICATIONS, INTERFACE, CHEATS, RESTRICTED_OBJECTS >>

\* The reader of the k-th chunk type.
ImportReader(k, L, stream) ==
    CASE ImportChunks[k] = TILES -> ReadWriteTilesChunk(L, stream)
      [] ImportChunks[k] = BANNERS -> ReadWriteBannersChunk(L, stream)
      [] ImportChunks[k] = RIDES -> ReadWriteRidesChunk(L, stream)
      [] ImportChunks[k] = ENTITIES -> ReadWriteEntitiesChunk(L, stream)
      [] ImportChunks[k] = SCENARIO -> ReadWriteScenarioChunk(L, stream)
      [] ImportChunks[k] = GENERAL -> ReadWriteGeneralChunk(L, stream)
      [] ImportChunks[k] = PARK -> ReadWriteParkChunk(L, stream)
      [] ImportChunks[k] = CLIMATE -> ReadWriteClimateChunk(L, stream)
      [] ImportChunks[k] = RESEARCH -> ReadWriteResearchChunk(L, stream)
      [] ImportChunks[k] = NOTIFICATIONS -> ReadWriteNotificationsChunk(L, stream)
      [] ImportChunks[k] = INTERFACE -> ReadWriteInterfaceChunk(L, stream)
      [] ImportChunks[k] = CHEATS -> ReadWriteCheatsChunk(L, stream)
      [] OTHER -> ReadWriteRestrictedObjectsChunk(L, stream)

\* As if Import went on to the next reader after a throw.
RECURSIVE RunImport_Continuing(_, _, _)
RunImport_Continuing(acc, stream, k) ==
    IF k > Len(ImportChunks) THEN acc
    ELSE IF acc.L.error # NoError
    THEN RunImport_Continuing(
             [L |-> [ImportReader(k, [acc.L EXCEPT !.error = NoError], stream)
                        EXCEPT !.error = acc.L.error],
              log |-> Append(acc.log, LogEntry("Import", stream, ImportChunks[k], FALSE))],
             stream, k + 1)
    ELSE RunImport_Continuing(
             [L |-> ImportReader(k, acc.L, stream),
              log |-> Append(acc.log, LogEntry("Import", stream, ImportChunks[k], FALSE))],
             stream, k + 1)

\* The readers run in order until one throws; what the earlier ones and the
\* throwing one installed stays installed.
RECURSIVE RunImport(_, _, _)
RunImport(acc, stream, k) ==
    IF k > Len(ImportChunks) \/ acc.L.error # NoError THEN acc
    ELSE LET after == ImportReader(k, acc.L, stream)
         IN  RunImport([L |-> after,
                        log |-> Append(acc.log,
                                   LogEntry("Import", stream, ImportChunks[k],
                                            [after EXCEPT !.error = NoError] # acc.L))],
                       stream, k + 1)

LiveState ==
    [world |-> world, gBanners |-> gBanners, gNewsItems |-> gNewsItems,
     entities |-> entities, rideUse |-> rideUse, placeholders |-> <<>>,
     error |-> NoError]

\* The two steps after the last reader: track elements take the type of
\* their ride for files older than version 4, and gInitialCash = gCash.
ImportEpilogue(w, stream) ==
    [w EXCEPT !.trackRideTypesUpdated = @ \/ stream.header.TargetVersion < 4,
              !.initialCash = w.park.cash]

\* Import() of the container opened by the preceding Load.
Import ==
    /\ pc = "loaded"
    /\ \E r \in {RunImport([L |-> LiveState, log |-> log], os, 1)} :
           /\ world' = IF r.L.error = NoError THEN ImportEpilogue(r.L.world, os)
                       ELSE r.L.world
           /\ gBanners' = r.L.gBanners
           /\ gNewsItems' = r.L.gNewsItems
           /\ entities' = r.L.entities
           /\ rideUse' = r.L.rideUse
           /\ placeholders' = r.L.placeholders
           /\ log' = r.log
           /\ error' = r.L.error
           /\ pc' = IF r.L.error = NoError THEN "imported" ELSE "failed"
    /\ UNCHANGED <<os, RequiredObjects, pathToSurfaceMap, pathToQueueSurfaceMap,
                   pathToRailingsMap, ExportObjectsList, loadedObjects, objRepository,
                   saved, dst, exporter, ui, outOfBounds>>


---------------------------------------------------------------------------
(* ParkFile::Save *)

\* The descriptor token written for one slot of the loaded object list.
WriteObjectEntry(entry) ==
    IF HasValue(entry)
    THEN IF entry.Generation = "JSON"
         THEN JsonToken(entry.Identifier)
         ELSE DatToken(entry.Entry, entry.Type)
    ELSE NoneToken

\* As if the writer skipped the empty slots of a list.
WriteObjectsChunk_Compacted(objectList) ==
    [k \in 1..ObjectType_Count |->
        [objectType |-> k - 1,
         slots |-> SelectSeq([j \in 1..Len(objectList[k - 1]) |->
                                 WriteObjectEntry(objectList[k - 1][j])],
                             LAMBDA tok : tok.kind # DESCRIPTOR_NONE)]]

\* ReadWriteObjectsChunk in WRITING mode: one sub-list per category, every
\* slot of the category's list in order.
WriteObjectsChunk(objectList) ==
    [k \in 1..ObjectType_Count |->
        [objectType |-> k - 1,
         slots |-> [j \in 1..Len(objectList[k - 1]) |->
                       WriteObjectEntry(objectList[k - 1][j])]]]

\* The Banners writer: every existing banner in index order, id included.
RECURSIVE WriteBanners(_, _)
WriteBanners(banners, i) ==
    IF i >= MAX_BANNERS THEN <<>>
    ELSE (IF banners[i] # NoBanner THEN <<banners[i]>> ELSE <<>>)
         \o WriteBanners(banners, i + 1)

\* The items of one region of the news store, up to its first empty item.
RECURSIVE NewsQueue(_, _, _)
NewsQueue(items, from, to) ==
    IF from >= to \/ items[from] = NullNewsItem THEN <<>>
    ELSE <<items[from]>> \o NewsQueue(items, from + 1, to)

WriteNotificationsChunk(items) ==
    [recent |-> NewsQueue(items, 0, ItemHistoryStart),
     archived |-> NewsQueue(items, ItemHistoryStart, ItemHistoryStart + MaxItemsArchive)]

\* The cell written for one group of an entity record.
WriteEntityField(name, ent, use) ==
    [seg |-> name,
     value |-> IF name = "Common" THEN <<ent.sprite_index>>
               ELSE IF name = "GuestTail.rideUse" /\ ent.sprite_index \in DOMAIN use.history
               THEN use.history[ent.sprite_index]
               ELSE IF name = "GuestTail.rideTypeUse"
                       /\ ent.sprite_index \in DOMAIN use.typeHistory
               THEN use.typeHistory[ent.sprite_index]
               ELSE <<>>]

NumberCell(name, n) == [seg |-> name, value |-> <<n>>]

RECURSIVE WriteEntityRecords(_, _, _, _, _)
WriteEntityRecords(table, use, version, kind, i) ==
    IF i >= MAX_ENTITIES THEN <<>>
    ELSE (IF table[i].kind = kind
          THEN <<NumberCell("index", table[i].sprite_index)>>
               \o [n \in 1..Len(ReadWriteEntity(kind, version)) |->
                      WriteEntityField(ReadWriteEntity(kind, version)[n], table[i], use)]
          ELSE <<>>)
         \o WriteEntityRecords(table, use, version, kind, i + 1)

\* WriteEntitiesOfType<T>: the type tag, the live count, then each entity.
WriteEntitiesOfType(table, use, version, kind) ==
    << NumberCell("type", CHOOSE k \in 1..Len(EntityKinds) : EntityKinds[k] = kind),
       NumberCell("count", Cardinality({i \in EntityIndices : table[i].kind = kind})) >>
    \o WriteEntityRecords(table, use, version, kind, 0)

RECURSIVE WriteEntitiesOfTypes(_, _, _, _)
WriteEntitiesOfTypes(table, use, version, k) ==
    IF k > Len(EntityKinds) THEN <<>>
    ELSE WriteEntitiesOfType(table, use, version, EntityKinds[k])
         \o WriteEntitiesOfTypes(table, use, version, k + 1)

\* The loop body of the writing branch: a record and count++ for a .dat or
\* a .parkobj file, nothing for any other extension.
PackObject(cs, ori) ==
    IF ori.extension = ".dat"
    THEN [count |-> cs.count + 1,
          records |-> Append(cs.records, [type |-> 0, name |-> ori.name, data |-> ori.data])]
    ELSE IF ori.extension = ".parkobj"
    THEN [count |-> cs.count + 1,
          records |-> Append(cs.records, [type |-> 1, name |-> ori.name, data |-> ori.data])]
    ELSE cs

\* The PackedObjects writer: a placeholder count of 0, the records, and the
\* count written over the placeholder.
RECURSIVE WritePackedObjects(_, _, _)
WritePackedObjects(cs, list, k) ==
    IF k > Len(list) THEN cs
    ELSE WritePackedObjects(PackObject(cs, list[k]), list, k + 1)

\* The payload of a PackedObjects chunk holding the given records.
PackedPayload(records) == [count |-> Len(records), records |-> records]

Chunk(type, payload) == [type |-> type, payload |-> payload]

\* The chunks Save emits, in order; PackedObjects only if there is
\* something to export.
SaveChunksOf(list) ==
    << Chunk(AUTHORING, "authoring"),
       Chunk(OBJECTS, WriteObjectsChunk(loadedObjects)),
       Chunk(TILES, world.tiles),
       Chunk(BANNERS, WriteBanners(gBanners, 0)),
       Chunk(RIDES, WriteRidesChunk(world.rides, PARK_FILE_CURRENT_VERSION)),
       Chunk(ENTITIES, WriteEntitiesOfTypes(entities, rideUse,
                                            PARK_FILE_CURRENT_VERSION, 1)),
       Chunk(SCENARIO, WriteScenarioChunk(world.scenario, PARK_FILE_CURRENT_VERSION)),
       Chunk(GENERAL, world.general),
       Chunk(PARK, WriteParkChunk(world.park)),
       Chunk(CLIMATE, world.climate),
       Chunk(RESEARCH, WriteResearchChunk(world.research)),
       Chunk(NOTIFICATIONS, WriteNotificationsChunk(gNewsItems)),
       Chunk(INTERFACE, world.interface),
       Chunk(CHEATS, world.cheats),
       Chunk(RESTRICTED_OBJECTS, world.restricted) >>
    \o (IF list = <<>> THEN <<>>
        ELSE <<Chunk(PACKED_OBJECTS,
                    WritePackedObjects([count |-> 0, records |-> <<>>], list, 1))>>)

SaveChunks == SaveChunksOf(ExportObjectsList)

RECURSIVE SaveLog(_, _)
SaveLog(chunks, k) ==
    IF k > Len(chunks) THEN <<>>
    ELSE <<[by |-> "Save", chunk |-> chunks[k].type, found |-> TRUE, changed |-> FALSE]>>
         \o SaveLog(chunks, k + 1)

PARK_FILE_MAGIC == "PARK"

\* As if the minimum version written were ahead of the target version.
SaveHeader_MinAhead ==
    [Magic |-> PARK_FILE_MAGIC,
     TargetVersion |-> PARK_FILE_CURRENT_VERSION,
     MinVersion |-> PARK_FILE_CURRENT_VERSION + 1]

\* The header fields Save sets on the new stream.
SaveHeader ==
    [Magic |-> PARK_FILE_MAGIC,
     TargetVersion |-> PARK_FILE_CURRENT_VERSION,
     MinVersion |-> PARK_FILE_MIN_VERSION]

\* Save(stream): the header, then every chunk writer.
Save ==
    /\ saved' = [header |-> SaveHeader, chunks |-> SaveChunks]
    /\ log' = log \o SaveLog(SaveChunks, 1)
    /\ UNCHANGED <<os, RequiredObjects, pathToSurfaceMap, pathToQueueSurfaceMap,
                   pathToRailingsMap, ExportObjectsList, loadedObjects, objRepository,
                   world, gBanners, gNewsItems, entities, rideUse, placeholders,
                   dst, exporter, ui, outOfBounds, pc, error>>


---------------------------------------------------------------------------
(* Initial states *)

\* A ParkFileExporter with nothing to export, before any Export.
NoExport == [ExportObjectsList |-> <<>>, via |-> "none"]

\* The screen is a while old, a construction window is open, nothing is to
\* be redrawn, and scenario_save has not been called.
NoCall ==
    [gScreenAge |-> 7, constructionWindows |-> TRUE, invalidated |-> FALSE,
     called |-> FALSE, flags |-> 0, packable |-> <<>>, threw |-> FALSE, result |-> 0]

\* A freshly constructed ParkFile: no stream, an empty required-object list,
\* zero-initialised mapping arrays, nothing to export.
InitParkFile ==
    /\ os = NoStream
    /\ RequiredObjects = EmptyObjectList
    /\ pathToSurfaceMap = [i \in PathIndices |-> 0]
    /\ pathToQueueSurfaceMap = [i \in PathIndices |-> 0]
    /\ pathToRailingsMap = [i \in PathIndices |-> 0]
    /\ ExportObjectsList = <<>>
    /\ saved = NoStream
    /\ dst = NoEntry
    /\ exporter = NoExport
    /\ ui = NoCall
    /\ log = <<>>
    /\ placeholders = <<>>
    /\ outOfBounds = FALSE
    /\ pc = "ready"
    /\ error = NoError

\* A ride as it is stored by a container of the given version.
StoredRide(ride, version) ==
    << ride.id, ride.type, ride.max_trains >>
    \o (IF version < 5 THEN <<ride.MinCarsPerTrain * 16 + ride.MaxCarsPerTrain>>
        ELSE <<ride.MinCarsPerTrain, ride.MaxCarsPerTrain>>)
    \o << ride.min_waiting_time, ride.num_sheltered_sections >>
    \o (IF version > 5 THEN <<ride.sheltered_eighths, ride.holes>> ELSE <<>>)
    \o << ride.current_test_station >>

OldRides ==
    << [NewRide(0) EXCEPT !.type = 1, !.max_trains = 2, !.MinCarsPerTrain = 3,
                          !.MaxCarsPerTrain = 4, !.min_waiting_time = 10,
                          !.num_sheltered_sections = 1, !.sheltered_eighths = 2,
                          !.holes = 18, !.current_test_station = 255] >>

FileRides ==
    << [NewRide(1) EXCEPT !.type = 5, !.max_trains = 6, !.MinCarsPerTrain = 1,
                          !.MaxCarsPerTrain = 7, !.min_waiting_time = 20,
                          !.num_sheltered_sections = 3, !.sheltered_eighths = 4,
                          !.holes = 9, !.current_test_station = 0] >>

PathElement(legacyIndex, isQueue) ==
    [isPath |-> TRUE, hasLegacyPathEntry |-> TRUE, legacyPathEntryIndex |-> legacyIndex,
     isQueue |-> isQueue, surfaceEntryIndex |-> 0, railingsEntryIndex |-> 0]

\* A park that is already running when the file is opened.
OldWorld ==
    [tiles |-> [mapSize |-> 1, elements |-> <<>>],
     rides |-> OldRides, scenario |-> OldScenario, general |-> "old general",
     park |-> OldPark, climate |-> "old climate", research |-> OldResearch,
     interface |-> "old interface", cheats |-> "old cheats",
     restricted |-> "old restricted",
     initialCash |-> 0, trackRideTypesUpdated |-> FALSE]

OldBanners == [i \in BannerIndices |-> IF i = 0 THEN [id |-> 0, text |-> "old"] ELSE NoBanner]

OldNewsItems ==
    [i \in NewsIndices |->
        IF i = 0 \/ i = ItemHistoryStart THEN [Type |-> 1, Text |-> "old"]
        ELSE NullNewsItem]

OldEntities ==
    [i \in EntityIndices |->
        IF i = 0
        THEN [kind |-> "Guest", sprite_index |-> 0,
              fieldsRead |-> ReadWriteGuest(PARK_FILE_CURRENT_VERSION), garbled |-> FALSE]
        ELSE NoEntity]

OldRideUse == [history |-> (0 :> <<7>>), typeHistory |-> (0 :> <<7>>)]

InitLive ==
    /\ world = OldWorld
    /\ gBanners = OldBanners
    /\ gNewsItems = OldNewsItems
    /\ entities = OldEntities
    /\ rideUse = OldRideUse
    /\ loadedObjects = EmptyObjectList
    /\ objRepository = {}

---------------------------------------------------------------------------
(* Loading hand-built Objects chunks *)

LoadObjectsFile ==
    /\ pc = "ready"
    /\ \E version \in ObjectsFileVersions, P \in PositionSets :
           \E placement \in [P -> ObjectTokens] : Load(ObjectsFile(version, placement))

InitObjects == InitParkFile /\ InitLive

NextObjects == LoadObjectsFile

SpecObjects == InitObjects /\ [][NextObjects]_vars


---------------------------------------------------------------------------
(* Containers with some chunks missing *)

MaxAbsent == 3

FileTiles == [mapSize |-> 2, elements |-> <<PathElement(0, FALSE), PathElement(1, TRUE)>>]

FileEntities ==
    [i \in EntityIndices |->
        IF i = MAX_ENTITIES - 1
        THEN [kind |-> "Staff", sprite_index |-> i, fieldsRead |-> <<>>, garbled |-> FALSE]
        ELSE NoEntity]

\* What a complete container of the given version holds, in the order Save
\* writes the chunks.
FileChunks(version) ==
    << Chunk(AUTHORING, "authoring"),
       Chunk(OBJECTS, ObjectsPayload(<<>>)),
       Chunk(TILES, FileTiles),
       Chunk(BANNERS, <<[id |-> MAX_BANNERS - 1, text |-> "file"]>>),
       Chunk(RIDES, [i \in 1..Len(FileRides) |-> StoredRide(FileRides[i], version)]),
       Chunk(ENTITIES, WriteEntitiesOfTypes(FileEntities, OldRideUse, version, 1)),
       Chunk(SCENARIO, WriteScenarioChunk(FileScenario, version)),
       Chunk(GENERAL, "file general"),
       Chunk(PARK, WriteParkChunk(FilePark)),
       Chunk(CLIMATE, "file climate"),
       Chunk(RESEARCH, WriteResearchChunk(FileResearch)),
       Chunk(NOTIFICATIONS, [recent |-> <<[Type |-> 2, Text |-> "file"]>>,
                             archived |-> <<>>]),
       Chunk(INTERFACE, "file interface"),
       Chunk(CHEATS, "file cheats"),
       Chunk(RESTRICTED_OBJECTS, "file restricted"),
       Chunk(PACKED_OBJECTS,
             PackedPayload(<<[type |-> 1, name |-> "x.custom", data |-> "packed"]>>)) >>

RECURSIVE Without(_, _)
Without(chunks, absent) ==
    IF chunks = <<>> THEN <<>>
    ELSE (IF Head(chunks).type \in absent THEN <<>> ELSE <<Head(chunks)>>)
         \o Without(Tail(chunks), absent)

\* The same container with one chunk replaced.
RECURSIVE Replace(_, _, _)
Replace(chunks, type, payload) ==
    IF chunks = <<>> THEN <<>>
    ELSE <<IF Head(chunks).type = type THEN Chunk(type, payload) ELSE Head(chunks)>>
         \o Replace(Tail(chunks), type, payload)

ChunkFile(version, absent) ==
    [header |-> Header(version), chunks |-> Without(FileChunks(version), absent)]

ReadChunkTypes == {ImportChunks[k] : k \in 1..Len(ImportChunks)} \cup {PACKED_OBJECTS}

AbsentSets == {A \in SUBSET ReadChunkTypes : Cardinality(A) <= MaxAbsent}

LoadChunkFile ==
    /\ pc = "ready"
    /\ \E version \in {3, PARK_FILE_CURRENT_VERSION}, absent \in AbsentSets :
           Load(ChunkFile(version, absent))

InitImport == InitParkFile /\ InitLive

NextImport == LoadChunkFile \/ Import

SpecImport == InitImport /\ [][NextImport]_vars

---------------------------------------------------------------------------
(* Containers with hand-built Banners chunks *)

\* Banner records: at most one more than the table holds, ids up to one past
\* the last slot.
BannerTexts == {"a", "b"}

BannerRecords(version) ==
    IF version = 0
    THEN [id : {BANNER_INDEX_NULL}, text : BannerTexts]
    ELSE [id : 0..MAX_BANNERS, text : {"a"}]

BannersFile(version, records) ==
    [header |-> Header(version),
     chunks |-> Replace(FileChunks(version), BANNERS, records)]

LoadBannersFile ==
    /\ pc = "ready"
    /\ \E version \in {0, 1, PARK_FILE_CURRENT_VERSION}, n \in 0..(MAX_BANNERS + 1) :
           \E records \in [1..n -> BannerRecords(version)] :
               Load(BannersFile(version, records))

InitBanners == InitParkFile /\ InitLive

NextBanners == LoadBannersFile \/ Import

SpecBanners == InitBanners /\ [][NextBanners]_vars

---------------------------------------------------------------------------
(* Containers with hand-built Notifications chunks *)

NewsItemsOf(text) == [Type : {1, 2}, Text : {text}]

NotificationsFile(recent, archived) ==
    [header |-> Header(PARK_FILE_CURRENT_VERSION),
     chunks |-> Replace(FileChunks(PARK_FILE_CURRENT_VERSION), NOTIFICATIONS,
                        [recent |-> recent, archived |-> archived])]

LoadNotificationsFile ==
    /\ pc = "ready"
    /\ \E r \in 0..(ItemHistoryStart + 1), a \in 0..(MaxItemsArchive + 1) :
           \E recent \in [1..r -> NewsItemsOf("recent")],
              archived \in [1..a -> NewsItemsOf("archived")] :
               Load(NotificationsFile(recent, archived))

InitNotifications == InitParkFile /\ InitLive

NextNotifications == LoadNotificationsFile \/ Import

SpecNotifications == InitNotifications /\ [][NextNotifications]_vars

---------------------------------------------------------------------------
(* Containers with hand-built Entities chunks *)

MaxGuests == 2

\* A legacy bitmap with exactly the bits of the listed ids set.
BitmapOf(list) ==
    [b \in 1..(SetMax({list[n] : n \in 1..Len(list)} \cup {0}) + 1) |->
        IF \E n \in 1..Len(list) : list[n] = b - 1 THEN 1 ELSE 0]

\* One record as a writer of the given version emits it for an entity at the
\* given slot whose ride history is the given list.
FileRecord(kind, version, index, rides) ==
    <<NumberCell("index", index)>>
    \o [n \in 1..Len(ReadWriteEntity(kind, version)) |->
           [seg |-> ReadWriteEntity(kind, version)[n],
            value |-> IF ReadWriteEntity(kind, version)[n] = "Common" THEN <<index>>
                      ELSE IF ReadWriteEntity(kind, version)[n] \in LegacyHistoryGroups
                      THEN BitmapOf(rides)
                      ELSE IF ReadWriteEntity(kind, version)[n] \in HistoryListGroups
                      THEN rides
                      ELSE <<>>]]

\* The records of one kind: record k sits at slot indices[k] and has been
\* on ride k only.
RECURSIVE FileRecords(_, _, _, _)
FileRecords(kind, version, indices, k) ==
    IF k > Len(indices) THEN <<>>
    ELSE FileRecord(kind, version, indices[k], <<k>>)
         \o FileRecords(kind, version, indices, k + 1)

RECURSIVE EntitiesPayload(_, _, _, _)
EntitiesPayload(version, guests, staff, k) ==
    IF k > Len(EntityKinds) THEN <<>>
    ELSE LET indices == IF EntityKinds[k] = "Guest" THEN guests
                        ELSE IF EntityKinds[k] = "Staff" THEN staff
                        ELSE <<>>
         IN  <<NumberCell("type", k), NumberCell("count", Len(indices))>>
             \o FileRecords(EntityKinds[k], version, indices, 1)
             \o EntitiesPayload(version, guests, staff, k + 1)

EntitiesFile(version, guests, staff) ==
    [header |-> Header(version),
     chunks |-> Replace(FileChunks(version), ENTITIES,
                        EntitiesPayload(version, guests, staff, 1))]

EntitiesFileVersions == {1, 2, 3, PARK_FILE_CURRENT_VERSION}

\* Guests at slot indices up to one past the table, repeats allowed, and at
\* most one member of staff.
LoadEntitiesFile ==
    /\ pc = "ready"
    /\ \E version \in EntitiesFileVersions, g \in 0..MaxGuests :
           \E guests \in [1..g -> 0..MAX_ENTITIES],
              staff \in {<<>>} \cup {<<i>> : i \in 0..MAX_ENTITIES} :
               Load(EntitiesFile(version, guests, staff))

InitEntities == InitParkFile /\ InitLive

NextEntities == LoadEntitiesFile \/ Import

SpecEntities == InitEntities /\ [][NextEntities]_vars

---------------------------------------------------------------------------
(* Saving a park and loading the container written *)

MaxSlots == 2

\* The categories whose lists the parks populate.
LoadedTypes == {ObjectType_Ride, ObjectType_FootpathSurface}

\* What a slot of category t of the loaded object list can hold: nothing, a
\* DAT object, a JSON object, a JSON object whose identifier is an old name.
LoadedDescriptors(t) ==
    { NoDescriptor,
      DatDescriptor([name |-> "CUSTOM  ", type |-> t]),
      JsonDescriptor(t, "rct2.footpath_surface.tarmac", ""),
      JsonDescriptor(t, "rct2.pathsurface.tarmac", "") }

LoadedLists(t) ==
    IF t \in LoadedTypes
    THEN UNION {[1..n -> LoadedDescriptors(t)] : n \in 0..MaxSlots}
    ELSE {<<>>}

SaveToFile ==
    /\ pc = "ready"
    /\ saved = NoStream
    /\ Save

LoadSaved ==
    /\ pc = "ready"
    /\ saved # NoStream
    /\ Load(saved)

InitRoundTrip ==
    /\ InitParkFile
    /\ world = OldWorld
    /\ gBanners = OldBanners
    /\ gNewsItems = OldNewsItems
    /\ entities = OldEntities
    /\ rideUse = OldRideUse
    /\ objRepository = {}
    /\ \E ride \in LoadedLists(ObjectType_Ride),
          surface \in LoadedLists(ObjectType_FootpathSurface) :
           loadedObjects = [t \in ObjectTypes |->
                               IF t = ObjectType_Ride THEN ride
                               ELSE IF t = ObjectType_FootpathSurface THEN surface
                               ELSE <<>>]

NextRoundTrip == SaveToFile \/ LoadSaved \/ Import

SpecRoundTrip == InitRoundTrip /\ [][NextRoundTrip]_vars

---------------------------------------------------------------------------
(* Containers with hand-built PackedObjects chunks *)

MaxPacked == 2
MaxReads == 2

\* The objects installed before any container is opened.
InstalledObjects ==
    { [generation |-> "DAT", name |-> "installed.obj", data |-> "installed"],
      [generation |-> "JSON", name |-> "installed.obj", data |-> "installed"] }

\* Packed records: the two known kinds and an unknown one, names installed
\* or not, two different blobs.
PackedRecords == [type : {0, 1, 2}, name : {"installed.obj", "new.obj"}, data : {"p", "q"}]

PackedFile(records) ==
    [header |-> Header(PARK_FILE_CURRENT_VERSION),
     chunks |-> Replace(FileChunks(PARK_FILE_CURRENT_VERSION), PACKED_OBJECTS,
                        PackedPayload(records))]

LoadPackedFile ==
    /\ pc = "ready"
    /\ \E n \in 0..MaxPacked :
           \E records \in [1..n -> PackedRecords] : Load(PackedFile(records))

\* The number of times the PackedObjects reader has run.
PackedReads == Cardinality({i \in 1..Len(log) : log[i].chunk = PACKED_OBJECTS})

\* The same container is loaded again.
LoadAgain ==
    /\ pc \in {"loaded", "failed"}
    /\ PackedReads < MaxReads
    /\ Load(os)

InitPacked ==
    /\ InitParkFile
    /\ world = OldWorld
    /\ gBanners = OldBanners
    /\ gNewsItems = OldNewsItems
    /\ entities = OldEntities
    /\ rideUse = OldRideUse
    /\ loadedObjects = EmptyObjectList
    /\ objRepository = InstalledObjects

NextPacked == LoadPackedFile \/ LoadAgain

SpecPacked == InitPacked /\ [][NextPacked]_vars

---------------------------------------------------------------------------
(* Properties of loading an Objects chunk *)

\* The descriptor tokens of the Objects chunk of the open container.
OpenObjectItems ==
    IF os # NoStream /\ HasChunk(os, OBJECTS)
    THEN ObjectItems(ChunkPayload(os, OBJECTS)) ELSE <<>>

\* The triple a token of the open container resolves to when it is a legacy
\* path entry, NoMapping otherwise.
ItemMapping(item) ==
    IF item.tok.kind = DESCRIPTOR_DAT
    THEN IF item.tok.type = ObjectType_Paths
         THEN GetFootpathMapping(DatDescriptor([name |-> item.tok.name,
                                                type |-> item.tok.type]))
         ELSE NoMapping
    ELSE IF item.tok.kind = DESCRIPTOR_JSON
    THEN GetFootpathMapping(JsonDescriptor(item.objectType,
                                MapToNewObjectIdentifier(item.tok.identifier), ""))
    ELSE NoMapping

\* The slots of a category of RequiredObjects that hold an identifier.
SlotsHolding(type, identifier) ==
    {i \in 1..Len(RequiredObjects[type]) : RequiredObjects[type][i].Identifier = identifier}

\* C5: after a Load of a container of version 2 or older, whenever the
\* Objects chunk holds two legacy path entries at different slots that
\* resolve to the same triple, each of the three identifiers of the triple
\* occupies exactly one slot of its category in RequiredObjects, and the
\* three mapping arrays hold equal indices at the two slots.
C5_FootpathDedup ==
    (pc = "loaded" /\ os.header.TargetVersion <= 2) =>
        \A a, b \in 1..Len(OpenObjectItems) :
            (/\ OpenObjectItems[a].j # OpenObjectItems[b].j
             /\ ItemMapping(OpenObjectItems[a]) # NoMapping
             /\ ItemMapping(OpenObjectItems[a]) = ItemMapping(OpenObjectItems[b]))
            => /\ Cardinality(SlotsHolding(ObjectType_FootpathSurface,
                       ItemMapping(OpenObjectItems[a]).NormalSurface)) = 1
               /\ Cardinality(SlotsHolding(ObjectType_FootpathSurface,
                       ItemMapping(OpenObjectItems[a]).QueueSurface)) = 1
               /\ Cardinality(SlotsHolding(ObjectType_FootpathRailings,
                       ItemMapping(OpenObjectItems[a]).Railing)) = 1
               /\ (OpenObjectItems[a].j \in PathIndices /\ OpenObjectItems[b].j \in PathIndices)
                  => /\ pathToSurfaceMap[OpenObjectItems[a].j]
                            = pathToSurfaceMap[OpenObjectItems[b].j]
                     /\ pathToQueueSurfaceMap[OpenObjectItems[a].j]
                            = pathToQueueSurfaceMap[OpenObjectItems[b].j]
                     /\ pathToRailingsMap[OpenObjectItems[a].j]
                            = pathToRailingsMap[OpenObjectItems[b].j]

\* C10: whenever the Objects chunk of the open container holds a descriptor
\* whose kind tag is none of 0, 1 and 2, Load has failed with the message
\* "Unknown object descriptor kind." and RequiredObjects is the empty list.
C10_UnknownKindAborts ==
    (LET items == OpenObjectItems
     IN  \E k \in 1..Len(items) :
             items[k].tok.kind \notin {DESCRIPTOR_NONE, DESCRIPTOR_DAT, DESCRIPTOR_JSON})
    => /\ pc = "failed"
       /\ error = "Unknown object descriptor kind."
       /\ RequiredObjects = EmptyObjectList

\* A Load that met the unknown tag after it had already decoded a descriptor.
C10_Witness ==
    /\ pc = "failed"
    /\ error = "Unknown object descriptor kind."
    /\ RequiredObjects = EmptyObjectList
    /\ Len(OpenObjectItems) >= 2
    /\ OpenObjectItems[1].tok.kind = DESCRIPTOR_DAT
    /\ OpenObjectItems[2].tok.kind = 3


---------------------------------------------------------------------------
(* Properties of Load followed by Import *)

ImportAttempted == \E i \in 1..Len(log) : log[i].by = "Import"

ReachedBy(by, type) == \E i \in 1..Len(log) : log[i].by = by /\ log[i].chunk = type

C3_MandatoryChunksAsStated ==
    ImportAttempted =>
        /\ ~HasChunk(os, TILES) => (pc = "failed" /\ error = "No tiles chunk found.")
        /\ ~HasChunk(os, GENERAL) => (pc = "failed" /\ error = "No general chunk found.")

\* C3: an Import of a container without a Tiles chunk fails with "No tiles
\* chunk found."; an Import of a container without a General chunk fails,
\* with "No general chunk found." if the General reader was reached and
\* with the error of the earlier reader that threw otherwise.
C3_MandatoryChunks ==
    ImportAttempted =>
        /\ ~HasChunk(os, TILES) => (pc = "failed" /\ error = "No tiles chunk found.")
        /\ ~HasChunk(os, GENERAL) =>
              /\ pc = "failed"
              /\ ReachedBy("Import", GENERAL) => error = "No general chunk found."

\* An Import that reached the General reader and failed there.
C3_Witness ==
    /\ pc = "failed"
    /\ HasChunk(os, TILES) /\ ~HasChunk(os, GENERAL)
    /\ ReachedBy("Import", GENERAL)
    /\ error = "No general chunk found."

OptionalChunks == ReadChunkTypes \ {TILES, GENERAL}

\* C4: a reader whose optional chunk is absent changes nothing and is not
\* the one that throws; after an Import the domain of every absent optional
\* chunk is as it was before, and so is the object repository after a Load
\* of a container without a PackedObjects chunk.
C4_AbsentOptionalChunk ==
    /\ \A i \in 1..Len(log) :
          (log[i].chunk \in OptionalChunks /\ ~log[i].found) =>
              /\ ~log[i].changed
              /\ (pc = "failed" => i < Len(log))
    /\ (os # NoStream /\ ~HasChunk(os, PACKED_OBJECTS)) => objRepository = {}
    /\ ImportAttempted =>
          /\ ~HasChunk(os, BANNERS) => gBanners = OldBanners
          /\ ~HasChunk(os, RIDES) => world.rides = OldWorld.rides
          /\ ~HasChunk(os, ENTITIES) => (entities = OldEntities /\ rideUse = OldRideUse)
          /\ ~HasChunk(os, SCENARIO) => world.scenario = OldWorld.scenario
          /\ ~HasChunk(os, PARK) => world.park = OldWorld.park
          /\ ~HasChunk(os, CLIMATE) => world.climate = OldWorld.climate
          /\ ~HasChunk(os, RESEARCH) => world.research = OldWorld.research
          /\ ~HasChunk(os, NOTIFICATIONS) => gNewsItems = OldNewsItems
          /\ ~HasChunk(os, INTERFACE) => world.interface = OldWorld.interface
          /\ ~HasChunk(os, CHEATS) => world.cheats = OldWorld.cheats
          /\ ~HasChunk(os, RESTRICTED_OBJECTS) => world.restricted = OldWorld.restricted

\* A successful Import of a container without Rides, Entities and
\* Notifications chunks.
C4_Witness ==
    /\ pc = "imported"
    /\ ~HasChunk(os, RIDES) /\ ~HasChunk(os, ENTITIES) /\ ~HasChunk(os, NOTIFICATIONS)
    /\ world.rides = OldWorld.rides /\ world.general = "file general"
    /\ entities = OldEntities /\ gNewsItems = OldNewsItems


---------------------------------------------------------------------------
(* Properties of the Banners reader *)

OpenBanners == IF HasChunk(os, BANNERS) THEN ChunkPayload(os, BANNERS) ELSE <<>>

\* The records of an indexed Banners chunk whose id names no slot.
InvalidBannerRecords == {k \in 1..Len(OpenBanners) : OpenBanners[k].id \notin BannerIndices}

\* After an Import of a version 1+ container: if every id names a slot, each
\* slot named holds the last record carrying its id; otherwise the Import
\* failed with "Invalid banner index", the records before the first invalid
\* one having been installed.
IndexedBannersInstalled ==
    /\ InvalidBannerRecords = {} =>
          /\ pc = "imported"
          /\ \A k \in 1..Len(OpenBanners) :
                /\ gBanners[OpenBanners[k].id].id = OpenBanners[k].id
                /\ (\A m \in (k + 1)..Len(OpenBanners) : OpenBanners[m].id # OpenBanners[k].id)
                   => gBanners[OpenBanners[k].id] = OpenBanners[k]
    /\ InvalidBannerRecords # {} =>
          /\ pc = "failed"
          /\ error = "Invalid banner index"
          /\ \A k \in 1..Len(OpenBanners) :
                (\A m \in 1..k : m \notin InvalidBannerRecords)
                => gBanners[OpenBanners[k].id].id = OpenBanners[k].id

---------------------------------------------------------------------------
(* Properties of the Notifications reader *)

OpenRecent == ChunkPayload(os, NOTIFICATIONS).recent

OpenArchived == ChunkPayload(os, NOTIFICATIONS).archived

\* C9: after an Import of a container whose Notifications chunk holds r
\* recent and a archived items, the Import has succeeded, the live store
\* has no index outside its two regions, the recent region holds the first
\* min(r, ItemHistoryStart) recent items in order followed by empty items,
\* and the archive region the first min(a, MaxItemsArchive) archived items
\* in order followed by empty items.
C9_NotificationsTruncated ==
    (ImportAttempted /\ HasChunk(os, NOTIFICATIONS)) =>
        /\ pc = "imported"
        /\ DOMAIN gNewsItems = NewsIndices
        /\ \A i \in 0..(ItemHistoryStart - 1) :
              gNewsItems[i] = IF i < Len(OpenRecent) THEN OpenRecent[i + 1]
                              ELSE NullNewsItem
        /\ \A i \in 0..(MaxItemsArchive - 1) :
              gNewsItems[ItemHistoryStart + i] =
                  IF i < Len(OpenArchived) THEN OpenArchived[i + 1] ELSE NullNewsItem

\* Both lists longer than their regions.
C9_Witness ==
    /\ pc = "imported"
    /\ Len(OpenRecent) > ItemHistoryStart
    /\ Len(OpenArchived) > MaxItemsArchive
    /\ gNewsItems[ItemHistoryStart - 1] = OpenRecent[ItemHistoryStart]


---------------------------------------------------------------------------
(* Properties of the Entities reader *)

\* C6: after an Import, no entity has been decoded from a misplaced stream
\* position, and no record that was decoded into the placeholder has changed
\* the ride-use or ride-type-use history store.
C6_PlaceholderLeavesStateAlone ==
    ImportAttempted =>
        /\ \A i \in DOMAIN entities : ~entities[i].garbled
        /\ \A n \in 1..Len(placeholders) : ~placeholders[n].modified

\* The groups ReadWritePeep reads between the shared groups when it interleaves.
InterleavedGroups ==
    UNION {{PeepGuestBlock(n)[m] : m \in 1..Len(PeepGuestBlock(n))}
           \cup {PeepStaffBlock(n)[m] : m \in 1..Len(PeepStaffBlock(n))} :
           n \in 1..Len(PeepShared)}

TailGroups ==
    {"GuestTail.GuestNumRides", "GuestTail.TimeInQueue", "GuestTail.CashInPocket",
     "GuestTail.Thoughts", "GuestTail.LitterCount", "StaffTail.AssignedStaffType",
     "StaffTail.StaffOrders"}

Groups(layout) == {layout[n] : n \in 1..Len(layout)}

\* A kind-specific group sits before a shared group of the Peep record.
Interleaved(layout) ==
    \E i, j \in 1..Len(layout) :
        /\ i < j
        /\ layout[i] \in InterleavedGroups
        /\ layout[j] \in Groups(PeepShared)

\* Every shared group comes before every kind-specific one, and there is a tail.
Disjoint(layout) ==
    /\ ~Interleaved(layout)
    /\ Groups(layout) \cap InterleavedGroups = {}
    /\ Groups(layout) \cap TailGroups # {}

Peeps == {i \in DOMAIN entities : entities[i].kind \in {"Guest", "Staff"}}

\* C7 as stated: after an Import of a version 2 container every Guest and
\* Staff has been decoded with the interleaved layout and without the ride-use
\* id lists; after an Import of a version 6 container, with the disjoint layout.
C7_PeepGatingAsStated ==
    ImportAttempted =>
        \A i \in Peeps :
            /\ os.header.TargetVersion = 2 =>
                  /\ Interleaved(entities[i].fieldsRead)
                  /\ Groups(entities[i].fieldsRead) \cap HistoryListGroups = {}
            /\ os.header.TargetVersion = 6 => Disjoint(entities[i].fieldsRead)

\* C7: after an Import, every Guest and Staff has been decoded with the
\* interleaved layout and no tail if the container's version is at most 1,
\* and with the disjoint layout otherwise; a Guest's ride history has been
\* read from bitmaps and not from id lists below version 3, and from id
\* lists and not from bitmaps from version 3 on.
C7_PeepGating ==
    ImportAttempted =>
        \A i \in Peeps :
            LET layout == entities[i].fieldsRead
                version == os.header.TargetVersion
            IN  /\ version <= 1 =>
                      /\ Interleaved(layout)
                      /\ Groups(layout) \cap TailGroups = {}
                /\ version > 1 => Disjoint(layout)
                /\ version < 3 => Groups(layout) \cap HistoryListGroups = {}
                /\ version >= 3 => Groups(layout) \cap LegacyHistoryGroups = {}
                /\ entities[i].kind = "Guest" =>
                      IF version < 3
                      THEN Groups(layout) \cap LegacyHistoryGroups # {}
                      ELSE HistoryListGroups \subseteq Groups(layout)

\* A version 2 container whose Guest and Staff are both in the table.
C7_Witness ==
    /\ pc = "imported"
    /\ os.header.TargetVersion = 2
    /\ \E i, j \in Peeps : entities[i].kind = "Guest" /\ entities[j].kind = "Staff"


---------------------------------------------------------------------------
(* Properties of Save followed by Load *)

\* ObjectList::GetObject(type, index): a slot past the end of a list is empty.
Slot(list, t, i) == IF i < Len(list[t]) THEN list[t][i + 1] ELSE NoDescriptor

SlotIndices == 0..MaxSlots

\* The container written by Save has been read back by Load.
ReadBack == pc = "loaded" /\ os = saved /\ saved # NoStream

---------------------------------------------------------------------------
(* Properties of the PackedObjects reader *)

OpenPacked ==
    IF HasChunk(os, PACKED_OBJECTS) THEN ChunkPayload(os, PACKED_OBJECTS).records ELSE <<>>

PackedGeneration(rec) == IF rec.type = 0 THEN "DAT" ELSE "JSON"

\* The first record of the open chunk whose kind is neither 0 nor 1, or one
\* past the last record.
FirstUnsupported ==
    IF \E k \in 1..Len(OpenPacked) : OpenPacked[k].type \notin {0, 1}
    THEN CHOOSE k \in 1..Len(OpenPacked) :
            /\ OpenPacked[k].type \notin {0, 1}
            /\ \A m \in 1..(k - 1) : OpenPacked[m].type \in {0, 1}
    ELSE Len(OpenPacked) + 1

\* The records whose blob is to be added: before the first unsupported kind,
\* naming no installed object and no earlier record's object.
AddedRecords ==
    {k \in 1..(FirstUnsupported - 1) :
        /\ ~FindObject(InstalledObjects, PackedGeneration(OpenPacked[k]), OpenPacked[k].name)
        /\ \A m \in 1..(k - 1) :
              ~(/\ OpenPacked[m].type = OpenPacked[k].type
                /\ OpenPacked[m].name = OpenPacked[k].name)}

\* C11: once a container has been loaded, every installed object is in the
\* repository as it was, the repository holds besides them exactly the
\* blobs of the records that named no object already there, the Load has
\* failed with "Unsupported packed object" exactly if a record has a kind
\* other than 0 and 1, and no read of the chunk after the first has changed
\* the repository.
C11_PackedIdempotent ==
    pc \in {"loaded", "failed"} =>
        /\ InstalledObjects \subseteq objRepository
        /\ objRepository =
              InstalledObjects
              \cup {[generation |-> PackedGeneration(OpenPacked[k]),
                     name |-> OpenPacked[k].name,
                     data |-> OpenPacked[k].data] : k \in AddedRecords}
        /\ (FirstUnsupported <= Len(OpenPacked))
              <=> (pc = "failed" /\ error = "Unsupported packed object")
        /\ \A i, j \in 1..Len(log) :
              (i < j /\ log[i].chunk = PACKED_OBJECTS /\ log[j].chunk = PACKED_OBJECTS)
              => ~log[j].changed

\* A chunk naming an installed object and a new one has been read twice.
C11_Witness ==
    /\ pc = "loaded"
    /\ PackedReads = 2
    /\ \E k, m \in 1..Len(OpenPacked) :
          /\ OpenPacked[k].name = "installed.obj"
          /\ OpenPacked[m].name = "new.obj"
    /\ Cardinality(objRepository) = Cardinality(InstalledObjects) + 1


---------------------------------------------------------------------------
(* Properties of a failed Import *)

\* C12: after an Import of a container with a Tiles chunk and no General
\* chunk, the Import has failed with "No general chunk found."; the Tiles
\* chunk and every Banners, Rides, Entities and Scenario chunk of the
\* container have been applied to the live state and are still applied; and
\* the live domains of Park, Climate, Research, Notifications, Interface,
\* Cheats and RestrictedObjects are as they were before.
C12_PartialImport ==
    (ImportAttempted /\ HasChunk(os, TILES) /\ ~HasChunk(os, GENERAL)) =>
        /\ pc = "failed"
        /\ error = "No general chunk found."
        /\ world.tiles.mapSize = ChunkPayload(os, TILES).mapSize
        /\ Len(world.tiles.elements) = Len(ChunkPayload(os, TILES).elements)
        /\ HasChunk(os, BANNERS) =>
              \A k \in 1..Len(ChunkPayload(os, BANNERS)) :
                  gBanners[ChunkPayload(os, BANNERS)[k].id] = ChunkPayload(os, BANNERS)[k]
        /\ HasChunk(os, RIDES) =>
              world.rides = ReadRides(ChunkPayload(os, RIDES), os.header.TargetVersion)
        /\ HasChunk(os, ENTITIES) =>
              \A i \in EntityIndices : entities[i].kind = FileEntities[i].kind
        /\ HasChunk(os, SCENARIO) =>
              world.scenario = ReadScenarioFields(OldScenario, ChunkPayload(os, SCENARIO),
                                                  os.header.TargetVersion)
        /\ world.general = OldWorld.general
        /\ world.park = OldWorld.park
        /\ world.climate = OldWorld.climate
        /\ world.research = OldWorld.research
        /\ gNewsItems = OldNewsItems
        /\ world.interface = OldWorld.interface
        /\ world.cheats = OldWorld.cheats
        /\ world.restricted = OldWorld.restricted

\* A container that lacks only the General chunk.
C12_Witness ==
    /\ pc = "failed"
    /\ ImportAttempted
    /\ \A type \in ReadChunkTypes : HasChunk(os, type) <=> type # GENERAL
    /\ world.scenario.name = FileScenario.name
    /\ world.park.cash # FilePark.cash

---------------------------------------------------------------------------
(* Saving parks with different scenarios and reading the summary back *)

LongName ==
    "A scenario whose name is longer than the sixty-three characters an entry holds"

LongDetails ==
    "These details run on for longer than the two hundred and fifty-five characters that the details buffer of a scenario index entry can hold in front of its terminator, so that the summary reader has to cut them off when it copies them into the entry, while the full scenario codec keeps every character of them."

\* Scenarios of the parks saved: short and long texts, two categories,
\* objective types, years and guest counts.
Scenarios ==
    [category : {0, 3},
     name : {"Forest Frontiers", LongName},
     parkName : {"Unnamed Park"},
     details : {"Build a park.", LongDetails},
     objective : [Type : {1, 6}, Year : {3, 4}, NumGuests : {1000, 1500},
                  Currency : {0}],
     parkRatingWarningDays : {0},
     completedCompanyValue : {"MONEY64_UNDEFINED"},
     completedBy : {""},
     allowEarlyCompletion : {FALSE},
     fileName : {"forest.park"}]

InitScenario ==
    /\ InitParkFile
    /\ \E s \in Scenarios : world = [OldWorld EXCEPT !.scenario = s]
    /\ gBanners = OldBanners
    /\ gNewsItems = OldNewsItems
    /\ entities = OldEntities
    /\ rideUse = OldRideUse
    /\ loadedObjects = EmptyObjectList
    /\ objRepository = {}

NextScenario == SaveToFile \/ LoadSaved \/ GetDetails

SpecScenario == InitScenario /\ [][NextScenario]_vars

---------------------------------------------------------------------------
(* The scenario summary of a saved park *)

\* The summary has been read from a container with a Scenario chunk.
SummaryRead == dst.source_game = "Other"

\* C13 as stated: the summary read from a saved park carries the category,
\* the objective type, year and guest count, and the scenario name and
\* details of the park that was saved.
C13_SummaryAsStated ==
    SummaryRead =>
        /\ dst.category = world.scenario.category
        /\ dst.objective_type = world.scenario.objective.Type
        /\ dst.objective_arg_1 = world.scenario.objective.Year
        /\ dst.objective_arg_3 = world.scenario.objective.NumGuests
        /\ dst.name = world.scenario.name
        /\ dst.details = world.scenario.details

\* C13: the summary read from a saved park carries the category, the
\* objective type, year, guest count and currency of the park that was
\* saved, and its scenario name and details cut to the size of the entry's
\* name and details buffers; the source game is Other.
C13_ScenarioSummary ==
    SummaryRead =>
        /\ dst.category = world.scenario.category
        /\ dst.objective_type = world.scenario.objective.Type
        /\ dst.objective_arg_1 = world.scenario.objective.Year
        /\ dst.objective_arg_3 = world.scenario.objective.NumGuests
        /\ dst.objective_arg_2 = world.scenario.objective.Currency
        /\ dst.name = String_Set(EntryNameSize, world.scenario.name)
        /\ dst.internal_name = dst.name
        /\ dst.details = String_Set(EntryDetailsSize, world.scenario.details)
        /\ (Len(world.scenario.name) < EntryNameSize => dst.name = world.scenario.name)
        /\ (Len(world.scenario.details) < EntryDetailsSize =>
                dst.details = world.scenario.details)

\* The summary of a park with category 3, 1000 guests by year 3, a short
\* name and details too long for the entry.
C13_Witness ==
    /\ SummaryRead
    /\ dst.category = 3
    /\ dst.objective_arg_1 = 3
    /\ dst.objective_arg_3 = 1000
    /\ dst.name = "Forest Frontiers"
    /\ Len(world.scenario.details) >= EntryDetailsSize
    /\ Len(dst.details) = EntryDetailsSize - 1

---------------------------------------------------------------------------
(* Identifier remapping across Save and Load *)

\* The sub-list of category t in the Objects chunk of the container written.
SavedSlots(t) == ChunkPayload(saved, OBJECTS)[t + 1].slots

\* C14: Save writes the identifier of every JSON object of the loaded object
\* list as it is, renamed or not; Load registers, for every JSON descriptor
\* of the Objects chunk, the value the table oldObjectIds holds for the
\* identifier read if it is a key of the table, and the identifier read
\* otherwise.
C14_RemapOnReadOnly ==
    /\ saved # NoStream =>
          \A t \in ObjectTypes : \A j \in 1..Len(loadedObjects[t]) :
              loadedObjects[t][j].Generation = "JSON" =>
                  /\ SavedSlots(t)[j].kind = DESCRIPTOR_JSON
                  /\ SavedSlots(t)[j].identifier = loadedObjects[t][j].Identifier
    /\ ReadBack =>
          \A t \in ObjectTypes : \A j \in 1..Len(SavedSlots(t)) :
              SavedSlots(t)[j].kind = DESCRIPTOR_JSON =>
                  /\ Slot(RequiredObjects, t, j - 1).Generation = "JSON"
                  /\ Slot(RequiredObjects, t, j - 1).Identifier =
                        IF SavedSlots(t)[j].identifier \in DOMAIN oldObjectIds
                        THEN oldObjectIds[SavedSlots(t)[j].identifier]
                        ELSE SavedSlots(t)[j].identifier

\* A container read back that holds an old identifier, written as it was
\* and renamed by the reader, next to a current one, kept by both.
C14_Witness ==
    /\ ReadBack
    /\ \E t \in LoadedTypes :
          /\ Len(SavedSlots(t)) = 2
          /\ SavedSlots(t)[1].identifier = "rct2.pathsurface.tarmac"
          /\ Slot(RequiredObjects, t, 0).Identifier = "rct2.footpath_surface.tarmac"
          /\ SavedSlots(t)[2].identifier = "rct2.footpath_surface.tarmac"
          /\ Slot(RequiredObjects, t, 1).Identifier = "rct2.footpath_surface.tarmac"

---------------------------------------------------------------------------
(* Saving parks with and without objects to export *)

MaxExports == 2

\* Entries of the export list: a legacy object file, a packed object file,
\* and a file of another kind.
ExportEntries ==
    { [extension |-> ".dat", name |-> "CUSTOM  ", data |-> "dat bytes"],
      [extension |-> ".parkobj", name |-> "x.custom", data |-> "parkobj bytes"],
      [extension |-> ".json", name |-> "y.custom", data |-> "json bytes"] }

ExportLists == UNION {[1..n -> ExportEntries] : n \in 0..MaxExports}

InitSave ==
    /\ os = NoStream
    /\ RequiredObjects = EmptyObjectList
    /\ pathToSurfaceMap = [i \in PathIndices |-> 0]
    /\ pathToQueueSurfaceMap = [i \in PathIndices |-> 0]
    /\ pathToRailingsMap = [i \in PathIndices |-> 0]
    /\ ExportObjectsList \in ExportLists
    /\ saved = NoStream
    /\ dst = NoEntry
    /\ exporter = NoExport
    /\ ui = NoCall
    /\ log = <<>>
    /\ placeholders = <<>>
    /\ outOfBounds = FALSE
    /\ pc = "ready"
    /\ error = NoError
    /\ \E category \in {0, 3}, details \in {"Build a park.", LongDetails} :
           world = [OldWorld EXCEPT !.scenario.category = category,
                                    !.scenario.details = details]
    /\ gBanners = OldBanners
    /\ gNewsItems = OldNewsItems
    /\ entities = OldEntities
    /\ rideUse = OldRideUse
    /\ loadedObjects = EmptyObjectList
    /\ objRepository = {}

NextSave == SaveToFile \/ LoadSaved \/ Import

SpecSave == InitSave /\ [][NextSave]_vars

---------------------------------------------------------------------------
(* The order of the chunks *)

ChunkTypes(stream) == [i \in 1..Len(stream.chunks) |-> stream.chunks[i].type]

\* The chunk types the given operation has written or searched for, in order.
RECURSIVE Visited(_, _)
Visited(by, k) ==
    IF k > Len(log) THEN <<>>
    ELSE (IF log[k].by = by THEN <<log[k].chunk>> ELSE <<>>) \o Visited(by, k + 1)

\* C15: a container written by Save holds the chunks Authoring, Objects,
\* Tiles, Banners, Rides, Entities, Scenario, General, Park, Climate,
\* Research, Notifications, Interface, Cheats, RestrictedObjects in this
\* order, followed by PackedObjects if and only if there was something to
\* export; an Import that returned has read the thirteen chunks Tiles to
\* RestrictedObjects in the same order.
C15_ChunkSequence ==
    /\ saved # NoStream =>
          /\ ChunkTypes(saved) =
                << AUTHORING, OBJECTS, TILES, BANNERS, RIDES, ENTITIES, SCENARIO,
                   GENERAL, PARK, CLIMATE, RESEARCH, NOTIFICATIONS, INTERFACE, CHEATS,
                   RESTRICTED_OBJECTS >>
                \o (IF ExportObjectsList # <<>> THEN <<PACKED_OBJECTS>> ELSE <<>>)
          /\ Visited("Save", 1) = ChunkTypes(saved)
    /\ pc = "imported" =>
          Visited("Import", 1) =
              << TILES, BANNERS, RIDES, ENTITIES, SCENARIO, GENERAL, PARK, CLIMATE,
                 RESEARCH, NOTIFICATIONS, INTERFACE, CHEATS, RESTRICTED_OBJECTS >>

\* A park saved with something to export, read back and imported.
C15_Witness ==
    /\ pc = "imported"
    /\ os = saved
    /\ Len(saved.chunks) = 16
    /\ saved.chunks[16].type = PACKED_OBJECTS
    /\ saved.chunks[2].type = OBJECTS

\* C16: every container written by Save carries the park-file magic, target
\* version 6 and minimum version 6, so that its minimum version does not
\* exceed its target version.
C16_WrittenHeader ==
    saved # NoStream =>
        /\ saved.header.Magic = "PARK"
        /\ saved.header.TargetVersion = 6
        /\ saved.header.MinVersion = 6
        /\ saved.header.MinVersion <= saved.header.TargetVersion

\* A container written by Save, with its chunks.
C16_Witness ==
    /\ saved # NoStream
    /\ saved.header.TargetVersion = 6
    /\ Len(saved.chunks) = 15
    /\ pc = "ready"

---------------------------------------------------------------------------
(* The footpath migration, descriptor by descriptor *)

\* The descriptor the reader builds from a token of the open container.
ItemDescriptor(item) ==
    IF item.tok.kind = DESCRIPTOR_DAT
    THEN DatDescriptor([name |-> item.tok.name, type |-> item.tok.type])
    ELSE JsonDescriptor(item.objectType, MapToNewObjectIdentifier(item.tok.identifier),
                        item.tok.version)

\* The reader's state once the first k descriptors of the open container
\* have been read.
AfterItems(k) ==
    ReadObjectItems([requiredObjects |-> EmptyObjectList,
                     surfaceMap |-> NullMap, queueMap |-> NullMap, railingsMap |-> NullMap,
                     surfaceCount |-> 0, railingsCount |-> 0,
                     outOfBounds |-> FALSE, error |-> NoError],
                    os.header.TargetVersion, SubSeq(OpenObjectItems, 1, k), 1)

\* C17: when the reader has read a descriptor at slot j of a container of
\* version 2 or older and the descriptor is a legacy path entry or a JSON
\* descriptor with a footpath mapping, slot j does not hold the descriptor,
\* the normal surface, the queue surface and the railings of the mapping
\* are registered in their categories, and the three mapping arrays hold
\* their slot indices at j; a descriptor without a mapping is registered
\* as it is at slot j; in a newer container every descriptor is registered
\* as it is at its slot and the mapping arrays stay null.
C17_MigrationOnRead ==
    \A k \in 1..Len(OpenObjectItems) :
        LET item == OpenObjectItems[k]
            j == item.j
            m == ItemMapping(item)
            d == ItemDescriptor(item)
            before == AfterItems(k - 1)
            after == AfterItems(k)
        IN  (before.error = NoError /\ item.tok.kind \in {DESCRIPTOR_DAT, DESCRIPTOR_JSON}) =>
                /\ (os.header.TargetVersion <= 2 /\ m # NoMapping) =>
                      /\ Slot(after.requiredObjects, d.Type, j) # d
                      /\ ObjectList_Find(after.requiredObjects, ObjectType_FootpathSurface,
                                         m.NormalSurface) # OBJECT_ENTRY_INDEX_NULL
                      /\ ObjectList_Find(after.requiredObjects, ObjectType_FootpathSurface,
                                         m.QueueSurface) # OBJECT_ENTRY_INDEX_NULL
                      /\ ObjectList_Find(after.requiredObjects, ObjectType_FootpathRailings,
                                         m.Railing) # OBJECT_ENTRY_INDEX_NULL
                      /\ j \in PathIndices =>
                            /\ after.surfaceMap[j] =
                                  ObjectList_Find(after.requiredObjects,
                                                  ObjectType_FootpathSurface, m.NormalSurface)
                            /\ after.queueMap[j] =
                                  ObjectList_Find(after.requiredObjects,
                                                  ObjectType_FootpathSurface, m.QueueSurface)
                            /\ after.railingsMap[j] =
                                  ObjectList_Find(after.requiredObjects,
                                                  ObjectType_FootpathRailings, m.Railing)
                /\ (os.header.TargetVersion <= 2 /\ m = NoMapping) =>
                      Slot(after.requiredObjects, d.Type, j) = d
                /\ os.header.TargetVersion > 2 =>
                      /\ Slot(after.requiredObjects, d.Type, j) = d
                      /\ after.surfaceMap = NullMap
                      /\ after.queueMap = NullMap
                      /\ after.railingsMap = NullMap

---------------------------------------------------------------------------
(* Parks with awards and research items, saved, played on and loaded again; *)
(* containers with hand-built expenditure tables                            *)

\* What a slot of gCurrentAwards can hold.
Awards == {NoAward, [Time |-> 5, Type |-> 1], [Time |-> 3, Type |-> 2]}

AwardArrays == [1..MAX_AWARDS -> Awards]

\* What gResearchLastItem and gResearchNextItem can hold.
OptionalItems == {<<>>, <<ResearchItem(7)>>}

\* The live states that differ in the awards and the two research items.
ParkWorlds ==
    { [OldWorld EXCEPT !.park.awards = awards,
                       !.research.lastItem = lastItem,
                       !.research.nextItem = nextItem] :
        awards \in AwardArrays, lastItem \in OptionalItems, nextItem \in OptionalItems }

\* The game runs on after the save: awards are given and expire, research
\* items are completed and chosen.
GameRuns ==
    /\ pc = "ready"
    /\ saved # NoStream
    /\ log[Len(log)].by = "Save"
    /\ world' \in ParkWorlds
    /\ log' = Append(log, [by |-> "Game", chunk |-> PARK, found |-> TRUE,
                           changed |-> world' # world])
    /\ UNCHANGED <<os, RequiredObjects, pathToSurfaceMap, pathToQueueSurfaceMap,
                   pathToRailingsMap, ExportObjectsList, loadedObjects, objRepository,
                   gBanners, gNewsItems, entities, rideUse, placeholders, saved, dst,
                   exporter, ui, outOfBounds, pc, error>>

\* A Park chunk whose expenditure table has the given numbers of rows and
\* columns; the value of row i, column j is 10 * i + j, rows and columns
\* counted from 0, and the historical profit is 5.
TablePayload(rows, columns) ==
    << Field("money64", FilePark.cash), Field("uint32", rows), Field("uint32", columns) >>
    \o [n \in 1..(rows * columns) |->
           Field("money64", 10 * ((n - 1) \div columns) + ((n - 1) % columns))]
    \o << Field("money64", FilePark.historicalProfit),
          Field("vector", FilePark.marketingCampaigns),
          Field("array", WriteAwards(FilePark.awards)),
          Field("fields", FilePark.statistics) >>

TableFile(rows, columns) ==
    [header |-> Header(PARK_FILE_CURRENT_VERSION),
     chunks |-> Replace(FileChunks(PARK_FILE_CURRENT_VERSION), PARK,
                        TablePayload(rows, columns))]

LoadTableFile ==
    /\ pc = "ready"
    /\ saved = NoStream
    /\ \E rows \in 0..(EXPENDITURE_TABLE_MONTH_COUNT + 1),
          columns \in 0..(ExpenditureType_Count + 1) :
           Load(TableFile(rows, columns))

InitPark ==
    /\ InitParkFile
    /\ world \in ParkWorlds
    /\ gBanners = OldBanners
    /\ gNewsItems = OldNewsItems
    /\ entities = OldEntities
    /\ rideUse = OldRideUse
    /\ loadedObjects = EmptyObjectList
    /\ objRepository = {}

NextPark == SaveToFile \/ GameRuns \/ LoadSaved \/ LoadTableFile \/ Import

SpecPark == InitPark /\ [][NextPark]_vars

---------------------------------------------------------------------------
(* Properties of the Park and Research readers *)

\* The container written by Save has been read back and imported.
SavedImported == pc = "imported" /\ os = saved /\ saved # NoStream

\* The awards in the Park chunk of the container written.
SavedAwards ==
    ChunkPayload(saved, PARK)[3 + EXPENDITURE_TABLE_MONTH_COUNT * ExpenditureType_Count + 3].v

\* C18: the Park chunk written by Save holds exactly the awards of the live
\* array whose Time is nonzero, and once the container has been imported,
\* whatever the live array held by then, every award of the chunk is in the
\* live array with its Time and Type.
C18_AwardRoundTrip ==
    /\ (saved # NoStream /\ log[Len(log)].by = "Save") =>
          /\ \A k \in 1..Len(SavedAwards) :
                /\ SavedAwards[k].Time # 0
                /\ \E i \in 1..MAX_AWARDS : world.park.awards[i] = SavedAwards[k]
          /\ \A i \in 1..MAX_AWARDS :
                world.park.awards[i].Time # 0 =>
                    \E k \in 1..Len(SavedAwards) : SavedAwards[k] = world.park.awards[i]
    /\ SavedImported =>
          \A k \in 1..Len(SavedAwards) :
              \E i \in 1..MAX_AWARDS : world.park.awards[i] = SavedAwards[k]

\* The expenditure table header and values of the open container.
StoredRows == ChunkPayload(os, PARK)[2].v
StoredColumns == ChunkPayload(os, PARK)[3].v
StoredValue(i, j) == ChunkPayload(os, PARK)[3 + i * StoredColumns + j + 1].v

\* C19: once a container whose expenditure table has more rows or more
\* columns than the live table has been imported, every live cell [i][j]
\* within the stored dimensions holds the stored value of row i, column j,
\* every other live cell is as it was, and the historical profit is the
\* value stored behind the last value of the table.
C19_ExpenditureCap ==
    (/\ pc = "imported"
     /\ saved = NoStream
     /\ \/ StoredRows > EXPENDITURE_TABLE_MONTH_COUNT
        \/ StoredColumns > ExpenditureType_Count) =>
        /\ \A i \in 0..(EXPENDITURE_TABLE_MONTH_COUNT - 1),
              j \in 0..(ExpenditureType_Count - 1) :
               world.park.expenditureTable[i + 1][j + 1] =
                   IF i < StoredRows /\ j < StoredColumns THEN StoredValue(i, j)
                   ELSE OldPark.expenditureTable[i + 1][j + 1]
        /\ world.park.historicalProfit =
               ChunkPayload(os, PARK)[3 + StoredRows * StoredColumns + 1].v

\* C20: once a container has been imported, the live last research item
\* holds a value exactly if the presence boolean stored for it is true, and
\* then it is the stored item; likewise the next research item.
C20_OptionalResearchItems ==
    pc = "imported" =>
        /\ (world.research.lastItem # <<>>) <=> ChunkPayload(os, RESEARCH)[2].hasValue
        /\ ChunkPayload(os, RESEARCH)[2].hasValue =>
              world.research.lastItem = <<ChunkPayload(os, RESEARCH)[2].item>>
        /\ (world.research.nextItem # <<>>) <=> ChunkPayload(os, RESEARCH)[3].hasValue
        /\ ChunkPayload(os, RESEARCH)[3].hasValue =>
              world.research.nextItem = <<ChunkPayload(os, RESEARCH)[3].item>>


---------------------------------------------------------------------------
(* Containers of the split era and before, with legacy paths on the grid *)

MaxTilesObjects == 2

\* A tile element as it is stored in the Tiles chunk: the entry indices it
\* carries are those of the file.
StoredElement(isPath, hasLegacyPathEntry, legacyIndex, isQueue) ==
    [isPath |-> isPath, hasLegacyPathEntry |-> hasLegacyPathEntry,
     legacyPathEntryIndex |-> legacyIndex, isQueue |-> isQueue,
     surfaceEntryIndex |-> 7, railingsEntryIndex |-> 8]

\* A grid with a footpath and a queue of every legacy index, a queue and a
\* footpath without a legacy entry, and an element that is not a path.
TilesGrid ==
    [mapSize |-> 2,
     elements |->
        [i \in 1..(2 * MAX_PATH_OBJECTS) |->
            StoredElement(TRUE, TRUE, (i - 1) \div 2, (i - 1) % 2 = 1)]
        \o << StoredElement(TRUE, FALSE, 0, TRUE),
              StoredElement(TRUE, FALSE, 0, FALSE),
              StoredElement(FALSE, FALSE, 0, FALSE) >>]

TilesTokens ==
    { DatToken("TARMAC  ", ObjectType_Paths),
      DatToken("CUSTPATH", ObjectType_Paths),
      JsonToken("rct2.pathsurface.tarmac") }

TilesPositionSets == {Q \in SUBSET Positions : Cardinality(Q) <= MaxTilesObjects}

TilesFile(version, placement) ==
    [header |-> Header(version),
     chunks |-> Replace(Replace(FileChunks(version), OBJECTS, ObjectsPayload(placement)),
                        TILES, TilesGrid)]

TilesFileVersions == {2, 3}

LoadTilesFile ==
    /\ pc = "ready"
    /\ \E version \in TilesFileVersions, P \in TilesPositionSets :
           \E placement \in [P -> TilesTokens] : Load(TilesFile(version, placement))

InitTiles == InitParkFile /\ InitLive

NextTiles == LoadTilesFile \/ Import

SpecTiles == InitTiles /\ [][NextTiles]_vars

---------------------------------------------------------------------------
(* Properties of the Tiles pass *)

\* The Tiles chunk of the open container has been read by Import.
TilesRead ==
    /\ ReachedBy("Import", TILES)
    /\ HasChunk(os, TILES)

StoredElements == ChunkPayload(os, TILES).elements

\* The element is a path with a legacy entry whose railings are mapped.
Migrated(el) ==
    /\ el.isPath
    /\ el.hasLegacyPathEntry
    /\ el.legacyPathEntryIndex \in PathIndices
    /\ pathToRailingsMap[el.legacyPathEntryIndex] # OBJECT_ENTRY_INDEX_NULL

\* C21: once Import has read the Tiles chunk, every path element with a
\* legacy entry p whose railings mapping is not null has the queue-surface
\* mapping of p as its surface index if it is a queue and the surface mapping
\* of p otherwise, and the railings mapping of p as its railings index; every
\* other element of the grid is as it was stored.
C21_TilesPatchPass ==
    TilesRead =>
        /\ Len(world.tiles.elements) = Len(StoredElements)
        /\ \A i \in 1..Len(StoredElements) :
              LET el == StoredElements[i]
                  p == el.legacyPathEntryIndex
              IN  IF Migrated(el)
                  THEN world.tiles.elements[i] =
                           [el EXCEPT !.surfaceEntryIndex =
                                          IF el.isQueue THEN pathToQueueSurfaceMap[p]
                                          ELSE pathToSurfaceMap[p],
                                      !.railingsEntryIndex = pathToRailingsMap[p]]
                  ELSE world.tiles.elements[i] = el

\* A grid read with a migrated queue whose two surfaces differ, next to a
\* legacy path without a mapping, a path without a legacy entry and an
\* element that is not a path.
C21_Witness ==
    /\ TilesRead
    /\ pc = "imported"
    /\ \E i \in 1..Len(StoredElements) :
          /\ Migrated(StoredElements[i])
          /\ StoredElements[i].isQueue
          /\ pathToQueueSurfaceMap[StoredElements[i].legacyPathEntryIndex]
                 # pathToSurfaceMap[StoredElements[i].legacyPathEntryIndex]
          /\ world.tiles.elements[i] # StoredElements[i]
    /\ \E i \in 1..Len(StoredElements) :
          /\ StoredElements[i].isPath
          /\ StoredElements[i].hasLegacyPathEntry
          /\ ~Migrated(StoredElements[i])
    /\ \E i \in 1..Len(StoredElements) : ~StoredElements[i].isPath


---------------------------------------------------------------------------
(* Properties of the PackedObjects writer *)

SavedPacked == ChunkPayload(saved, PACKED_OBJECTS)

\* C22: Save emits no PackedObjects chunk when ExportObjectsList is empty;
\* whenever the chunk is emitted, the count in its first field is the number
\* of records that follow, entries whose extension is neither .dat nor
\* .parkobj having no record, and the count is at least 1.
C22_PackedCountOnWrite ==
    saved # NoStream =>
        /\ ExportObjectsList = <<>> => ~HasChunk(saved, PACKED_OBJECTS)
        /\ HasChunk(saved, PACKED_OBJECTS) =>
              /\ SavedPacked.count = Len(SavedPacked.records)
              /\ SavedPacked.count =
                     Cardinality({k \in 1..Len(ExportObjectsList) :
                                     ExportObjectsList[k].extension \in {".dat", ".parkobj"}})
              /\ SavedPacked.count >= 1


---------------------------------------------------------------------------
(* Containers with hand-built Rides chunks *)

PackedBytes == {0, 18, 241, 255}

CarCounts == {1, 16, 255}

\* The records of one ride for a container of the given version: the packed
\* byte before version 5, two fields from version 5 on, and the two
\* sheltered fields after version 5.
RideRecords(version) ==
    IF version < 5
    THEN {<<1, 5, 6, b, 20, 3, 77>> : b \in PackedBytes}
    ELSE IF version = 5
    THEN {<<1, 5, 6, c[1], c[2], 20, 3, 77>> : c \in CarCounts \X CarCounts}
    ELSE {<<1, 5, 6, c[1], c[2], 20, 3, c[3], c[4], 77>> :
             c \in CarCounts \X CarCounts \X {0, 7} \X {0, 9}}

RidesFile(version, records) ==
    [header |-> Header(version), chunks |-> Replace(FileChunks(version), RIDES, records)]

RidesFileVersions == {4, 5, PARK_FILE_CURRENT_VERSION}

LoadRidesFile ==
    /\ pc = "ready"
    /\ \E version \in RidesFileVersions :
           \E record \in RideRecords(version) : Load(RidesFile(version, <<record>>))

\* The ride tables a park is saved with.
LiveRides ==
    { <<>>, OldRides, FileRides,
      << [OldRides[1] EXCEPT !.MinCarsPerTrain = 200, !.MaxCarsPerTrain = 17],
         [FileRides[1] EXCEPT !.sheltered_eighths = 0] >> }

InitRides ==
    /\ InitParkFile
    /\ \E rides \in LiveRides : world = [OldWorld EXCEPT !.rides = rides]
    /\ gBanners = OldBanners
    /\ gNewsItems = OldNewsItems
    /\ entities = OldEntities
    /\ rideUse = OldRideUse
    /\ loadedObjects = EmptyObjectList
    /\ objRepository = {}

NextRides == SaveToFile \/ LoadSaved \/ LoadRidesFile \/ Import

SpecRides == InitRides /\ [][NextRides]_vars

---------------------------------------------------------------------------
(* Properties of the ride record *)

\* Import has read the Rides chunk of the open container.
RidesRead == ReachedBy("Import", RIDES) /\ HasChunk(os, RIDES)

\* C23: a ride read from a container older than version 5 has the high
\* nibble of the byte after max_trains as MinCarsPerTrain and its low nibble
\* as MaxCarsPerTrain, both in 0..15; from version 5 on the two are read
\* from, and by Save written to, two fields of their own; sheltered_eighths
\* and holes are read and written after version 5 and are no part of the
\* record up to version 5.
C23_RideVersionGates ==
    /\ RidesRead =>
          /\ Len(world.rides) = Len(ChunkPayload(os, RIDES))
          /\ \A i \in 1..Len(world.rides) :
                LET cs == ChunkPayload(os, RIDES)[i]
                    ride == world.rides[i]
                    v == os.header.TargetVersion
                IN  /\ v < 5 =>
                          /\ ride.MinCarsPerTrain = cs[4] \div 16
                          /\ ride.MaxCarsPerTrain = cs[4] % 16
                          /\ ride.MinCarsPerTrain \in 0..15
                          /\ ride.MaxCarsPerTrain \in 0..15
                          /\ ride.min_waiting_time = cs[5]
                          /\ ride.current_test_station = cs[7]
                          /\ Len(cs) = 7
                    /\ v >= 5 =>
                          /\ ride.MinCarsPerTrain = cs[4]
                          /\ ride.MaxCarsPerTrain = cs[5]
                          /\ ride.min_waiting_time = cs[6]
                    /\ v = 5 => ride.current_test_station = cs[8] /\ Len(cs) = 8
                    /\ v <= 5 =>
                          /\ ride.sheltered_eighths = NewRide(ride.id).sheltered_eighths
                          /\ ride.holes = NewRide(ride.id).holes
                    /\ v > 5 =>
                          /\ ride.sheltered_eighths = cs[8]
                          /\ ride.holes = cs[9]
                          /\ ride.current_test_station = cs[10]
                          /\ Len(cs) = 10
    /\ (saved # NoStream /\ ~ImportAttempted) =>
          /\ Len(ChunkPayload(saved, RIDES)) = Len(world.rides)
          /\ \A i \in 1..Len(world.rides) :
                LET cs == ChunkPayload(saved, RIDES)[i]
                    ride == world.rides[i]
                IN  /\ Len(cs) = 10
                    /\ cs[4] = ride.MinCarsPerTrain
                    /\ cs[5] = ride.MaxCarsPerTrain
                    /\ cs[8] = ride.sheltered_eighths
                    /\ cs[9] = ride.holes

\* A ride read from a container of version 4 whose packed byte is 0xF1,
\* after a park with two rides was saved.
C23_Witness ==
    /\ RidesRead
    /\ pc = "imported"
    /\ os.header.TargetVersion = 4
    /\ ChunkPayload(os, RIDES)[1][4] = 241
    /\ world.rides[1].MinCarsPerTrain = 15
    /\ world.rides[1].MaxCarsPerTrain = 1
    /\ saved # NoStream
    /\ Len(ChunkPayload(saved, RIDES)) = 2
    /\ ChunkPayload(saved, RIDES)[1][4] = 200


---------------------------------------------------------------------------
(* What is left of the registrations after Load *)

\* The identifier is registered in some slot of the category.
Registered(type, identifier) ==
    ObjectList_Find(RequiredObjects, type, identifier) # OBJECT_ENTRY_INDEX_NULL

\* C24: after a Load of a container of version 2 or older, every object
\* registered while the Objects chunk was read is in RequiredObjects: the
\* three objects of every migrated footpath in their categories, and every
\* footpath surface or railings descriptor registered as it is in a slot of
\* its category.
C24_NoSlotClobbering ==
    (pc = "loaded" /\ os.header.TargetVersion <= 2) =>
        \A k \in 1..Len(OpenObjectItems) :
            LET item == OpenObjectItems[k]
                m == ItemMapping(item)
                d == ItemDescriptor(item)
            IN  item.tok.kind \in {DESCRIPTOR_DAT, DESCRIPTOR_JSON} =>
                    IF m # NoMapping
                    THEN /\ Registered(ObjectType_FootpathSurface, m.NormalSurface)
                         /\ Registered(ObjectType_FootpathSurface, m.QueueSurface)
                         /\ Registered(ObjectType_FootpathRailings, m.Railing)
                    ELSE d.Type \in {ObjectType_FootpathSurface, ObjectType_FootpathRailings} =>
                             \E i \in 0..MAX_PATH_OBJECTS :
                                 Slot(RequiredObjects, d.Type, i) = d


\* The descriptors of the open container that were migrated with legacy
\* index i, by their position in the chunk.
MigratedAt(i) ==
    {k \in 1..Len(OpenObjectItems) :
        /\ os.header.TargetVersion <= 2
        /\ OpenObjectItems[k].j = i
        /\ OpenObjectItems[k].tok.kind \in {DESCRIPTOR_DAT, DESCRIPTOR_JSON}
        /\ ItemMapping(OpenObjectItems[k]) # NoMapping}

\* At every legacy index the three mapping arrays are all null or all set.
MapsNullTogether ==
    \A i \in PathIndices :
        /\ (pathToSurfaceMap[i] = OBJECT_ENTRY_INDEX_NULL)
               <=> (pathToRailingsMap[i] = OBJECT_ENTRY_INDEX_NULL)
        /\ (pathToQueueSurfaceMap[i] = OBJECT_ENTRY_INDEX_NULL)
               <=> (pathToRailingsMap[i] = OBJECT_ENTRY_INDEX_NULL)

\* C25: after a successful Load the three mapping arrays are, at every
\* legacy index, all null or all set; where they are set, the slots of
\* RequiredObjects they point at hold the normal surface, the queue surface
\* and the railings of the mapping resolved for the entry of that index.
C25_MappingCoherence ==
    pc = "loaded" =>
        /\ MapsNullTogether
        /\ \A i \in PathIndices :
              pathToRailingsMap[i] # OBJECT_ENTRY_INDEX_NULL =>
                  /\ MigratedAt(i) # {}
                  /\ LET m == ItemMapping(OpenObjectItems[SetMax(MigratedAt(i))])
                     IN  /\ Slot(RequiredObjects, ObjectType_FootpathSurface,
                                 pathToSurfaceMap[i]).Identifier = m.NormalSurface
                         /\ Slot(RequiredObjects, ObjectType_FootpathSurface,
                                 pathToQueueSurfaceMap[i]).Identifier = m.QueueSurface
                         /\ Slot(RequiredObjects, ObjectType_FootpathRailings,
                                 pathToRailingsMap[i]).Identifier = m.Railing


\* C26: while an Objects chunk is read, no store to the surface, the
\* queue-surface or the railings mapping array uses an index of
\* MAX_PATH_OBJECTS or more, whatever the sizes and the categories of the
\* sub-lists of the chunk.
C26_MappingBounds == ~outOfBounds


---------------------------------------------------------------------------
(* Containers whose entity records name a slot of their own *)

\* The Entities payload with the sprite_index of every common header set
\* to what the given table holds for the slot index in front of the record.
Restamped(cells, stored) ==
    [n \in 1..Len(cells) |->
        IF cells[n].seg = "Common"
        THEN NumberCell("Common", stored[CellNumber(cells[n - 1])])
        ELSE cells[n]]

SpritesFile(version, guests, staff, stored) ==
    [header |-> Header(version),
     chunks |-> Replace(FileChunks(version), ENTITIES,
                        Restamped(EntitiesPayload(version, guests, staff, 1), stored))]

SpritesFileVersions == {2, 3, PARK_FILE_CURRENT_VERSION}

LoadSpritesFile ==
    /\ pc = "ready"
    /\ \E version \in SpritesFileVersions,
          guests \in {<<>>} \cup {<<i>> : i \in EntityIndices},
          staff \in {<<>>} \cup {<<i>> : i \in EntityIndices},
          stored \in [EntityIndices -> EntityIndices] :
           Load(SpritesFile(version, guests, staff, stored))

InitSprites == InitParkFile /\ InitLive

NextSprites == LoadSpritesFile \/ Import

SpecSprites == InitSprites /\ [][NextSprites]_vars

\* Import has read the Entities chunk of the open container.
EntitiesRead == ReachedBy("Import", ENTITIES) /\ HasChunk(os, ENTITIES)

\* C27: once the Entities chunk has been read, every entity created at
\* slot i of the entity table has sprite_index = i.
C27_EntityIdentity ==
    EntitiesRead =>
        \A i \in EntityIndices : entities[i] # NoEntity => entities[i].sprite_index = i


---------------------------------------------------------------------------
(* One ParkFile object loading a second container *)

\* A container with at most one object in its Objects chunk.
ReloadFiles ==
    {TilesFile(version, placement) :
        version \in TilesFileVersions,
        placement \in UNION {[P -> TilesTokens] :
                                P \in {Q \in SUBSET Positions : Cardinality(Q) <= 1}}}

Loads == Cardinality({i \in 1..Len(log) : log[i].by = "Load" /\ log[i].chunk = OBJECTS})

LoadFirst ==
    /\ pc = "ready"
    /\ \E file \in ReloadFiles : Load(file)

\* Load called again on the object that has loaded a container.
LoadSecond ==
    /\ pc = "loaded"
    /\ Loads = 1
    /\ \E file \in ReloadFiles : Load(file)

InitReload == InitParkFile /\ InitLive

NextReload == LoadFirst \/ LoadSecond \/ Import

SpecReload == InitReload /\ [][NextReload]_vars

\* C28: after a Load the mapping arrays are set at the legacy indices the
\* container loaded last has migrated and null everywhere else, whatever
\* an earlier Load of the same object left in them; after the Load of a
\* container of a version above 2 the three arrays are null at every index,
\* and the Tiles pass of the Import that follows leaves the surface and the
\* railings index of every element as stored.
C28_NoMigrationAboveSplit ==
    /\ Loads > 0 =>
          \A i \in PathIndices :
              MigratedAt(i) = {} =>
                  /\ pathToSurfaceMap[i] = OBJECT_ENTRY_INDEX_NULL
                  /\ pathToQueueSurfaceMap[i] = OBJECT_ENTRY_INDEX_NULL
                  /\ pathToRailingsMap[i] = OBJECT_ENTRY_INDEX_NULL
    /\ (Loads > 0 /\ os.header.TargetVersion > 2) =>
          /\ pathToSurfaceMap = NullMap
          /\ pathToQueueSurfaceMap = NullMap
          /\ pathToRailingsMap = NullMap
          /\ TilesRead =>
                \A i \in 1..Len(StoredElements) :
                    /\ world.tiles.elements[i].surfaceEntryIndex
                           = StoredElements[i].surfaceEntryIndex
                    /\ world.tiles.elements[i].railingsEntryIndex
                           = StoredElements[i].railingsEntryIndex

\* A grid with legacy paths read from a container of version 3 that was
\* loaded second, its Objects chunk holding a legacy path entry.
C28_Witness ==
    /\ Loads = 2
    /\ pc = "imported"
    /\ os.header.TargetVersion = 3
    /\ TilesRead
    /\ \E i \in 1..Len(StoredElements) :
          StoredElements[i].isPath /\ StoredElements[i].hasLegacyPathEntry
    /\ \E k \in 1..Len(OpenObjectItems) :
          /\ OpenObjectItems[k].tok = DatToken("TARMAC  ", ObjectType_Paths)
          /\ OpenObjectItems[k].j \in PathIndices


---------------------------------------------------------------------------
(* ParkFileExporter *)

\* ParkFileExporter::Export(path): a new ParkFile saves to the file.
ExportToPath ==
    /\ pc = "ready"
    /\ exporter.via = "none"
    /\ ExportObjectsList' = <<>>
    /\ saved' = [header |-> SaveHeader, chunks |-> SaveChunksOf(<<>>)]
    /\ log' = log \o SaveLog(SaveChunksOf(<<>>), 1)
    /\ exporter' = [exporter EXCEPT !.via = "path"]
    /\ UNCHANGED <<os, RequiredObjects, pathToSurfaceMap, pathToQueueSurfaceMap,
                   pathToRailingsMap, loadedObjects, objRepository, world, gBanners,
                   gNewsItems, entities, rideUse, placeholders, dst, ui, outOfBounds,
                   pc, error>>

\* ParkFileExporter::Export(stream): a new ParkFile is given the exporter's
\* list and saves to the stream.
ExportToStream ==
    /\ pc = "ready"
    /\ exporter.via = "none"
    /\ ExportObjectsList' = exporter.ExportObjectsList
    /\ saved' = [header |-> SaveHeader,
                 chunks |-> SaveChunksOf(exporter.ExportObjectsList)]
    /\ log' = log \o SaveLog(SaveChunksOf(exporter.ExportObjectsList), 1)
    /\ exporter' = [exporter EXCEPT !.via = "stream"]
    /\ UNCHANGED <<os, RequiredObjects, pathToSurfaceMap, pathToQueueSurfaceMap,
                   pathToRailingsMap, loadedObjects, objRepository, world, gBanners,
                   gNewsItems, entities, rideUse, placeholders, dst, ui, outOfBounds,
                   pc, error>>

InitExport ==
    /\ os = NoStream
    /\ RequiredObjects = EmptyObjectList
    /\ pathToSurfaceMap = [i \in PathIndices |-> 0]
    /\ pathToQueueSurfaceMap = [i \in PathIndices |-> 0]
    /\ pathToRailingsMap = [i \in PathIndices |-> 0]
    /\ ExportObjectsList = <<>>
    /\ saved = NoStream
    /\ dst = NoEntry
    /\ \E list \in ExportLists : exporter = [ExportObjectsList |-> list, via |-> "none"]
    /\ ui = NoCall
    /\ log = <<>>
    /\ placeholders = <<>>
    /\ outOfBounds = FALSE
    /\ pc = "ready"
    /\ error = NoError
    /\ \E rides \in LiveRides : world = [OldWorld EXCEPT !.rides = rides]
    /\ gBanners = OldBanners
    /\ gNewsItems = OldNewsItems
    /\ entities = OldEntities
    /\ rideUse = OldRideUse
    /\ loadedObjects = EmptyObjectList
    /\ objRepository = {}

NextExport == ExportToPath \/ ExportToStream \/ LoadSaved \/ Import

SpecExport == InitExport /\ [][NextExport]_vars

\* C29: whichever overload of Export ran, the park file was handed the
\* exporter's ExportObjectsList and the container holds the chunks Save
\* writes for that list and the live state, so that it ends with a
\* PackedObjects chunk exactly when the exporter's list is not empty.
C29_ExporterEquivalence ==
    (exporter.via # "none" /\ ~ImportAttempted) =>
        /\ ExportObjectsList = exporter.ExportObjectsList
        /\ saved.chunks = SaveChunksOf(exporter.ExportObjectsList)
        /\ HasChunk(saved, PACKED_OBJECTS) <=> exporter.ExportObjectsList # <<>>


---------------------------------------------------------------------------
(* scenario_save *)

S6_SAVE_FLAG_EXPORT == 1
S6_SAVE_FLAG_SCENARIO == 2
\* 1u << 31 as the int32_t the flags are passed in
S6_SAVE_FLAG_AUTOMATIC == -2147483647 - 1

\* flags & flag, for a flag of one bit: the sign bit of the int32_t, or one
\* of the bits below it
HasFlag(flags, flag) ==
    IF flag = S6_SAVE_FLAG_AUTOMATIC THEN flags < 0 ELSE (flags \div flag) % 2 = 1

SaveFlags ==
    {e + s + a : e \in {0, S6_SAVE_FLAG_EXPORT}, s \in {0, S6_SAVE_FLAG_SCENARIO},
                 a \in {0, S6_SAVE_FLAG_AUTOMATIC}}

\* As if the screen age were reset after every save that succeeded.
ScreenAgeAfter_AnySave(age, result, flags) == IF result THEN 0 ELSE age

\* gScreenAge when scenario_save returns.
ScreenAgeAfter(age, result, flags) ==
    IF result /\ ~HasFlag(flags, S6_SAVE_FLAG_AUTOMATIC) THEN 0 ELSE age

\* scenario_save(path, flags).  GetPackableObjects returns the given list
\* if it is called; Save(path) throws exactly if the file cannot be written.
ScenarioSave(flags, packable, writable) ==
    LET list == IF HasFlag(flags, S6_SAVE_FLAG_EXPORT) THEN packable ELSE <<>>
    IN  /\ pc = "ready"
        /\ ~ui.called
        /\ ExportObjectsList' = list
        /\ saved' = IF writable
                    THEN [header |-> SaveHeader, chunks |-> SaveChunksOf(list)]
                    ELSE saved
        /\ log' = IF writable THEN log \o SaveLog(SaveChunksOf(list), 1) ELSE log
        /\ ui' = [gScreenAge |-> ScreenAgeAfter(ui.gScreenAge, writable, flags),
                  constructionWindows |->
                      IF ~HasFlag(flags, S6_SAVE_FLAG_AUTOMATIC) THEN FALSE
                      ELSE ui.constructionWindows,
                  invalidated |-> TRUE,
                  called |-> TRUE,
                  flags |-> flags,
                  packable |-> list,
                  threw |-> ~writable,
                  result |-> IF writable THEN 1 ELSE 0]
        /\ UNCHANGED <<os, RequiredObjects, pathToSurfaceMap, pathToQueueSurfaceMap,
                       pathToRailingsMap, loadedObjects, objRepository, world, gBanners,
                       gNewsItems, entities, rideUse, placeholders, dst, exporter,
                       outOfBounds, pc, error>>

CallScenarioSave ==
    \E flags \in SaveFlags, packable \in ExportLists, writable \in BOOLEAN :
        ScenarioSave(flags, packable, writable)

InitScenarioSave == InitParkFile /\ InitLive

NextScenarioSave == CallScenarioSave \/ LoadSaved \/ Import

SpecScenarioSave == InitScenarioSave /\ [][NextScenarioSave]_vars

\* C30: when scenario_save has returned, its result is nonzero exactly if
\* saving did not throw, and then the container is written; the screen is
\* invalidated; gScreenAge is 0 if the save succeeded without the AUTOMATIC
\* flag and as before otherwise; the construction windows are closed
\* exactly if the AUTOMATIC flag is not set; the park file exports the
\* packable objects if the EXPORT flag is set and nothing otherwise.
C30_ScenarioSaveOutcome ==
    ui.called =>
        /\ ui.result # 0 <=> ~ui.threw
        /\ ui.result # 0 <=> saved # NoStream
        /\ ui.invalidated
        /\ IF ui.result # 0 /\ ~HasFlag(ui.flags, S6_SAVE_FLAG_AUTOMATIC)
           THEN ui.gScreenAge = 0
           ELSE ui.gScreenAge = NoCall.gScreenAge
        /\ ui.constructionWindows <=> HasFlag(ui.flags, S6_SAVE_FLAG_AUTOMATIC)
        /\ ~HasFlag(ui.flags, S6_SAVE_FLAG_EXPORT) =>
              /\ ExportObjectsList = <<>>
              /\ saved # NoStream => ~HasChunk(saved, PACKED_OBJECTS)
        /\ HasFlag(ui.flags, S6_SAVE_FLAG_EXPORT) =>
              /\ ExportObjectsList = ui.packable
              /\ saved # NoStream =>
                    (HasChunk(saved, PACKED_OBJECTS) <=> ui.packable # <<>>)

\* An automatic save with export that succeeded: the screen age and the
\* construction windows are as before, the packed objects are written.
C30_Witness ==
    /\ ui.called
    /\ ui.flags = S6_SAVE_FLAG_AUTOMATIC + S6_SAVE_FLAG_EXPORT
    /\ ui.result = 1
    /\ ui.gScreenAge = 7
    /\ ui.constructionWindows
    /\ ui.invalidated
    /\ HasChunk(saved, PACKED_OBJECTS)

=============================================================================
